---- MODULE Spec2Model ----
(***************************************************************************)
(* Skill-Sense: multi-source skill aggregation.                            *)
(*                                                                         *)
(* The model covers the merge of duplicate skills (mergeSkills of          *)
(* SmartAggregateExtract and the inline merge of                           *)
(* Index.handleAggregateExtract) and the two aggregate-extraction          *)
(* handlers that call it.                                                  *)
(*                                                                         *)
(* Texts (skill names, source labels, inputs) are sequences of             *)
(* one-character strings, so that toLowerCase, trim and includes are       *)
(* computed and not assumed.  Confidence scores are exact rationals in     *)
(* units of 1/ConfOne; every score drawn is a multiple of a power of two   *)
(* large enough that the halvings of the merge are exact.                  *)
(***************************************************************************)
EXTENDS Integers, Sequences, FiniteSets, TLC

\* ------------------------------------------------------------------ bounds
\* Longest candidate list handed to the merge function.
MaxLen == 3
\* Most skills one adapter call returns in an aggregate run.
MaxPerSource == 1
\* Most rejected clicks (no input) before a run.
MaxRejects == 1

\* ------------------------------------------------------------- text helpers
SPACE == " "

\* String.prototype.toLowerCase on the letters the model uses.
ToLowerChar(c) ==
  CASE c = "P" -> "p"
    [] c = "Y" -> "y"
    [] c = "G" -> "g"
    [] c = "O" -> "o"
    [] OTHER -> c

toLowerCase(s) == [i \in 1..Len(s) |-> ToLowerChar(s[i])]

RECURSIVE trimStart(_)
trimStart(s) ==
  IF s = <<>> THEN <<>>
  ELSE IF Head(s) = SPACE THEN trimStart(Tail(s)) ELSE s

RECURSIVE trimEnd(_)
trimEnd(s) ==
  IF s = <<>> THEN <<>>
  ELSE IF s[Len(s)] = SPACE THEN trimEnd(SubSeq(s, 1, Len(s) - 1)) ELSE s

\* String.prototype.trim
trim(s) == trimEnd(trimStart(s))

\* String.prototype.includes: t occurs in s as a contiguous substring.
includes(s, t) ==
  \E i \in 0..(Len(s) - Len(t)) : SubSeq(s, i + 1, i + Len(t)) = t

\* ------------------------------------------------------------ source labels
LblDocument  == <<"D","o","c","u","m","e","n","t">>
LblGitHub    == <<"G","i","t","H","u","b">>
LblTextInput == <<"T","e","x","t"," ","I","n","p","u","t">>
LblText      == <<"T","e","x","t">>

\* Labels written by SmartAggregateExtract's adapters.
SmartLabels == {LblDocument, LblGitHub, LblTextInput}
\* Labels written by Index.handleAggregateExtract.
IndexLabels == {LblDocument, LblGitHub, LblText}

\* The separator of the template literal `${existing.source}, ${skill.source}`.
LabelSep == <<",", " ">>

\* ------------------------------------------------------------ skill records
\* 1.0 in confidence units (0.8 = 64, 0.6 = 48).
ConfOne == 16 * 5

Explicit == "explicit"
Implicit == "implicit"
Locked   == "locked"
Unlocked == "unlocked"

NamePy    == <<"P","y">>
NamePyLow == <<"p","y">>
NamePyPad == <<" ","p","Y"," ">>
NameGo    == <<"G","o">>

\* The scalar fields and evidence an oracle answer carries besides the name.
\* Two shapes that differ in every field.
ShapeA == [skill_type |-> Explicit, confidence_score |-> 64,
           evidence |-> <<"e1", "e1">>, cluster |-> "Other",
           microstory |-> "No story available", state |-> Unlocked]
ShapeB == [skill_type |-> Implicit, confidence_score |-> 48,
           evidence |-> <<"e2", "e1">>, cluster |-> "Technical",
           microstory |-> "story", state |-> Locked]
Shapes == {ShapeA, ShapeB}

\* ExtractedSkill (interface): one candidate, tagged with its source.
MkSkill(name, shape, src) ==
  [skill_name |-> name, skill_type |-> shape.skill_type,
   confidence_score |-> shape.confidence_score, evidence |-> shape.evidence,
   cluster |-> shape.cluster, microstory |-> shape.microstory,
   state |-> shape.state, source |-> src]

\* --------------------------------------------------------------- the merge
\* Mutation of KeyOf: the key is trimmed but not lower-cased.
KeyOfNoLowerCase(skill) == trim(skill.skill_name)

\* Mutation of KeyOf: the key is lower-cased but not trimmed.
KeyOfNoTrim(skill) == toLowerCase(skill.skill_name)

\* const key = skill.skill_name.toLowerCase().trim()
KeyOf(skill) == trim(toLowerCase(skill.skill_name))

\* [...new Set(xs)]: first occurrences, in order.
RECURSIVE SetSpread(_)
SetSpread(xs) ==
  IF xs = <<>> THEN <<>>
  ELSE LET rest == SetSpread(SubSeq(xs, 1, Len(xs) - 1))
           x    == xs[Len(xs)]
       IN IF \E i \in 1..Len(rest) : rest[i] = x THEN rest ELSE Append(rest, x)

\* Mutation of AvgConfidence: the parentheses are missing.
AvgConfidenceNoParens(existing, skill) ==
  existing.confidence_score + (skill.confidence_score \div 2)

\* Mutation of AvgConfidence: the later candidate's score replaces the mean.
AvgConfidenceLastWins(existing, skill) == skill.confidence_score

\* (existing.confidence_score + skill.confidence_score) / 2
AvgConfidence(existing, skill) ==
  (existing.confidence_score + skill.confidence_score) \div 2

\* Mutation of CombinedEvidence: the arrays are concatenated without the Set.
CombinedEvidenceConcat(existing, skill) == existing.evidence \o skill.evidence

\* [...new Set([...existing.evidence, ...skill.evidence])]
CombinedEvidence(existing, skill) ==
  SetSpread(existing.evidence \o skill.evidence)

\* Mutation of TrackSources: the label is appended without the includes test.
TrackSourcesAlwaysAppend(existing, skill) ==
  existing.source \o LabelSep \o skill.source

\* existing.source.includes(skill.source) ? existing.source : `${..}, ${..}`
TrackSources(existing, skill) ==
  IF includes(existing.source, skill.source)
  THEN existing.source
  ELSE existing.source \o LabelSep \o skill.source

\* Mutation of MergeInto: the new candidate is spread instead of the existing
\* entry ({ ...skill, confidence_score, evidence, source }).
MergeIntoSpreadsNew(existing, skill) ==
  [skill EXCEPT !.confidence_score = AvgConfidence(existing, skill),
                !.evidence = CombinedEvidence(existing, skill),
                !.source = TrackSources(existing, skill)]

\* { ...existing, confidence_score, evidence, source }
MergeInto(existing, skill) ==
  [existing EXCEPT !.confidence_score = AvgConfidence(existing, skill),
                   !.evidence = CombinedEvidence(existing, skill),
                   !.source = TrackSources(existing, skill)]

\* The Map<string, ExtractedSkill>, as its entries in insertion order.
MapHas(skillMap, key) == \E i \in 1..Len(skillMap) : skillMap[i].key = key
MapIndex(skillMap, key) == CHOOSE i \in 1..Len(skillMap) : skillMap[i].key = key

\* Mutation of MergeStep: a first occurrence is stored under its trimmed name.
MergeStepTrimsFirst(skillMap, skill) ==
  LET key == KeyOf(skill) IN
  IF MapHas(skillMap, key)
  THEN LET i == MapIndex(skillMap, key) IN
       [skillMap EXCEPT ![i].value = MergeInto(skillMap[i].value, skill)]
  ELSE Append(skillMap,
         [key |-> key,
          value |-> [skill EXCEPT !.skill_name = trim(skill.skill_name)]])

\* One iteration of the forEach body.
MergeStep(skillMap, skill) ==
  LET key == KeyOf(skill) IN
  IF MapHas(skillMap, key)
  THEN LET i == MapIndex(skillMap, key) IN
       [skillMap EXCEPT ![i].value = MergeInto(skillMap[i].value, skill)]
  ELSE Append(skillMap, [key |-> key, value |-> skill])

RECURSIVE MergeFold(_, _)
MergeFold(skillMap, skills) ==
  IF skills = <<>> THEN skillMap
  ELSE MergeFold(MergeStep(skillMap, Head(skills)), Tail(skills))

\* Array.from(skillMap.values())
MapValues(skillMap) == [i \in 1..Len(skillMap) |-> skillMap[i].value]

\* Array.prototype.flat
RECURSIVE Flat(_)
Flat(arrays) ==
  IF arrays = <<>> THEN <<>> ELSE Head(arrays) \o Flat(Tail(arrays))

\* SmartAggregateExtract.mergeSkills
mergeSkills(skillsArray) == MapValues(MergeFold(<<>>, Flat(skillsArray)))

\* The inline merge of Index.handleAggregateExtract.
IndexMerge(allSkills) == MapValues(MergeFold(<<>>, allSkills))

\* ------------------------------------------------ the merge, by reference
\* The objects of a merge call: the candidates given, at references 1..n,
\* followed by the objects the merge creates. The Map holds references.
NoObjects == [heap |-> <<>>, out |-> <<>>]

\* Mutation of RefStep: the entry found is updated in place
\* (existing.confidence_score = ..., existing.evidence = ...).
RefStepInPlace(st, ref) ==
  LET skill == st.heap[ref]
      key   == KeyOf(skill)
  IN IF MapHas(st.map, key)
     THEN LET existing == st.map[MapIndex(st.map, key)].value IN
          [heap |-> [st.heap EXCEPT
                       ![existing] = MergeInto(st.heap[existing], skill)],
           map |-> st.map]
     ELSE [heap |-> st.heap,
           map |-> Append(st.map, [key |-> key, value |-> ref])]

\* One iteration of the forEach body on references: skillMap.set(key, skill)
\* stores the candidate itself, skillMap.set(key, { ...existing, ... }) a new
\* object.
RefStep(st, ref) ==
  LET skill == st.heap[ref]
      key   == KeyOf(skill)
  IN IF MapHas(st.map, key)
     THEN LET i == MapIndex(st.map, key)
              existing == st.map[i].value
          IN [heap |-> Append(st.heap, MergeInto(st.heap[existing], skill)),
              map |-> [st.map EXCEPT ![i].value = Len(st.heap) + 1]]
     ELSE [heap |-> st.heap,
           map |-> Append(st.map, [key |-> key, value |-> ref])]

RECURSIVE RefFold(_, _)
RefFold(st, refs) ==
  IF refs = <<>> THEN st
  ELSE RefFold(RefStep(st, Head(refs)), Tail(refs))

\* The merge over the candidates given: the objects afterwards and the
\* references returned.
MergeByReference(candidates) ==
  LET st == RefFold([heap |-> candidates, map |-> <<>>],
                    [i \in 1..Len(candidates) |-> i])
  IN [heap |-> st.heap, out |-> MapValues(st.map)]

\* The records behind the references returned.
Deref(objects) == [i \in 1..Len(objects.out) |-> objects.heap[objects.out[i]]]

\* =================================================== the aggregate handlers
NoText == <<>>
Blank  == <<SPACE>>
TextCV == <<"c", "v">>
UserU  == <<"u">>
TokenT == <<"t">>
Null   == "null"
Undefined == <<"undefined">>

\* What the user can type into a text field.
TextInputs == {NoText, Blank, TextCV}
UserInputs == {NoText, Blank, UserU}
TokenInputs == {NoText, TokenT}

\* Names as extract-skills returns them (trimmed there).
TrimmedNames == {NamePy, NamePyLow, NameGo}

\* A skill as an edge function returns it (no source tag yet).
MkRaw(name, shape) ==
  [skill_name |-> name, skill_type |-> shape.skill_type,
   confidence_score |-> shape.confidence_score, evidence |-> shape.evidence,
   cluster |-> shape.cluster, microstory |-> shape.microstory,
   state |-> shape.state]

RawSkills == {MkRaw(n, sh) : n \in TrimmedNames, sh \in Shapes}

\* Skill lists of at most MaxPerSource entries.
SkillLists == UNION {[1..n -> RawSkills] : n \in 0..MaxPerSource}

\* supabase.functions.invoke settles with {data, error} or rejects.
OkResponse(skills) == [kind |-> "ok", skills |-> skills, message |-> ""]
ErrResponse(msg)   == [kind |-> "error", skills |-> <<>>, message |-> msg]
Rejected(msg)      == [kind |-> "throw", skills |-> <<>>, message |-> msg]

\* extract-skills: a blank text short-circuits to { skills: [] }; otherwise
\* the normalized list, or a non-2xx answer (missing key, gateway failure).
ExtractSkillsResponses(text) ==
  {ErrResponse("Edge Function returned a non-2xx status code"),
   Rejected("Failed to fetch")}
  \cup (IF trim(text) = <<>> THEN {OkResponse(<<>>)}
        ELSE {OkResponse(l) : l \in SkillLists})

\* const { githubUsername, githubToken } = await req.json()
Field(body, f) == IF f \in DOMAIN body THEN body[f] ELSE Undefined

\* github-skill-extract: rejects a request without githubUsername.
GithubSkillExtractResponses(body) ==
  {Rejected("Failed to fetch")}
  \cup (IF Field(body, "githubUsername") \in {Undefined, NoText}
        THEN {ErrResponse("Edge Function returned a non-2xx status code")}
        ELSE {ErrResponse("Edge Function returned a non-2xx status code")}
             \cup {OkResponse(l) : l \in SkillLists})

\* parseDocument: throws (unsupported type, broken file) or returns the text.
ParseThrows == <<"throws">>
ParseOutcomes == {ParseThrows, NoText, Blank, TextCV}

\* The merge exercised as a function (specification MergeSpec).
VARIABLES
  fnComponent,  \* which merge is exercised: "Smart" (mergeSkills) or "Index"
  fnInput,      \* the ordered candidate list handed to the merge
  fnOutput,     \* what the merge returned
  fnDone,       \* whether the merge has been applied
  fnHeap        \* the objects after the merge and the references returned

fnVars == <<fnComponent, fnInput, fnOutput, fnDone, fnHeap>>

\* aggregateProgress: { github?, document?, text? }, a display string each.
Unset        == [mark |-> "unset", count |-> 0]
Processing   == [mark |-> "Processing...", count |-> 0]
Extracted(n) == [mark |-> "ok skills", count |-> n]
Failed       == [mark |-> "x Failed", count |-> 0]
NoProgress   == [a \in {"Document", "GitHub", "Text"} |-> Unset]

VARIABLES
  component,       \* the handler under analysis: "Smart" or "Index"
  pc,              \* where the handler stands
  \* SmartAggregateExtract state
  file, textInput, githubUsername, githubToken, autoMerge,
  isExtracting, progress, sources,
  \* Index state
  profileId, pendingFile, pendingText, pendingGithub,
  processing, aggregateProgress,
  \* the run
  task,            \* per adapter: "absent", "parsing", "invoking", "settled"
  request,         \* per adapter: the body sent to the edge function
  results,         \* per adapter: the candidates it returned
  mergedSkills,    \* what the merge step produced
  inserts,         \* the batches handed to supabase.from('skills').insert
  saved,           \* rows the store holds
  toasts,          \* notifications raised, in order
  completions,     \* calls of onComplete / loadSkills after a save
  rejects,         \* clicks rejected for lack of input
  capturedSources, \* the `sources` value the running handler closed over
  \* history of the run
  outcome,         \* per adapter: "none", "ok" (it returned skills), "failed"
  settleOrder,     \* the adapters in the order their promises settled
  statusAtMerge    \* per adapter: its displayed status when the merge began

\* An edge function exercised on its own (specification EdgeSpec).
VARIABLES
  edgeFn,        \* "extract-skills" or "github-skill-extract"
  oracleAnswer,  \* what the language model service answered
  edgeResponse,  \* what the edge function returned to the client
  edgeStatus,    \* the status entry of the source on the client
  edgeStep       \* "called", "answered", "returned", "settled"

edgeVars == <<edgeFn, oracleAnswer, edgeResponse, edgeStatus, edgeStep>>

\* The quest system on the Index page (specification QuestSpec).
VARIABLES
  skillRows,     \* table skills: per skill id its state and confidence
  questRows,     \* table quests, in insertion order
  skillsShown,   \* Index state `skills`: per skill id the state last loaded
  questsShown,   \* QuestSystem state `quests`
  loads,         \* the loadQuests invocations in flight, where each stands
  reloads,       \* loadUserProfile calls in flight
  updates        \* completeQuest and handleConfirmSkill calls in flight

questVars == <<skillRows, questRows, skillsShown, questsShown, loads, reloads,
               updates>>

smartVars == <<file, textInput, githubUsername, githubToken, autoMerge,
               isExtracting, progress, sources>>
indexVars == <<profileId, pendingFile, pendingText, pendingGithub,
               processing, aggregateProgress>>
runVars == <<task, request, results, mergedSkills, inserts, saved, toasts,
             completions, rejects, capturedSources, outcome, settleOrder,
             statusAtMerge>>
vars == <<component, pc, smartVars, indexVars, runVars, fnVars, edgeVars, questVars>>

Adapters == {"Document", "GitHub", "Text"}
\* The order of the extraction promises / of the sequential blocks.
AdapterOrder == <<"Document", "GitHub", "Text">>

NotMerged == [a \in Adapters |-> "not merged"]

RunIdle ==
  /\ pc = "idle"
  /\ file = Null /\ textInput = NoText /\ githubUsername = NoText
  /\ githubToken = NoText /\ autoMerge = TRUE
  /\ isExtracting = FALSE /\ progress = 0 /\ sources = <<>>
  /\ profileId = Null /\ pendingFile = Null /\ pendingText = NoText
  /\ pendingGithub = [username |-> NoText, token |-> NoText]
  /\ processing = FALSE /\ aggregateProgress = NoProgress
  /\ task = [a \in Adapters |-> "absent"]
  /\ request = [a \in Adapters |-> <<>>]
  /\ results = [a \in Adapters |-> <<>>]
  /\ mergedSkills = <<>>
  /\ inserts = <<>> /\ saved = <<>> /\ toasts = <<>>
  /\ completions = 0 /\ rejects = 0 /\ capturedSources = <<>>
  /\ outcome = [a \in Adapters |-> "none"]
  /\ settleOrder = <<>>
  /\ statusAtMerge = NotMerged

\* The function-level variables rest while a handler runs.
FnIdle ==
  /\ fnComponent = "none" /\ fnInput = <<>> /\ fnOutput = <<>> /\ fnDone = FALSE
  /\ fnHeap = NoObjects

\* The edge function and quest variables rest as well.
EdgeIdle ==
  /\ edgeFn = "none" /\ oracleAnswer = <<>> /\ edgeResponse = <<>>
  /\ edgeStatus = <<>> /\ edgeStep = "idle"

QuestIdle ==
  /\ skillRows = <<>> /\ questRows = <<>> /\ skillsShown = <<>>
  /\ questsShown = <<>> /\ loads = <<>> /\ reloads = 0 /\ updates = <<>>

Init ==
  /\ component \in {"Smart", "Index"}
  /\ RunIdle /\ FnIdle /\ EdgeIdle /\ QuestIdle

\* ------------------------------------------------ SmartAggregateExtract
NoError == "undefined"

\* The status a source shows in the `sources` list ("absent": no entry).
SmartStatus(srcs, a) ==
  IF \E i \in 1..Len(srcs) : srcs[i].name = a
  THEN srcs[CHOOSE i \in 1..Len(srcs) : srcs[i].name = a].status
  ELSE "absent"

\* The status a source shows in aggregateProgress, in the same vocabulary.
IndexStatus(ap, a) ==
  CASE ap[a] = Unset      -> "absent"
    [] ap[a] = Processing -> "processing"
    [] ap[a] = Failed     -> "error"
    [] OTHER              -> "completed"

\* interface ExtractionSource
Source(name, status, count, err) ==
  [name |-> name, status |-> status, skillsCount |-> count, error |-> err]

\* Mutation of updateSourceStatus: the count of the entry is left as it was.
updateSourceStatusKeepsCount(prev, sourceName, status, skillsCount, err) ==
  [i \in 1..Len(prev) |->
     IF prev[i].name = sourceName
     THEN [prev[i] EXCEPT !.status = status, !.error = err]
     ELSE prev[i]]

\* Mutation of updateSourceStatus: the list is rebuilt with every other entry
\* back at pending.
updateSourceStatusResetsOthers(prev, sourceName, status, skillsCount, err) ==
  [i \in 1..Len(prev) |->
     IF prev[i].name = sourceName
     THEN [prev[i] EXCEPT !.status = status, !.skillsCount = skillsCount,
                          !.error = err]
     ELSE Source(prev[i].name, "pending", 0, NoError)]

\* setSources(prev => prev.map(s => s.name === sourceName ? {...} : s))
updateSourceStatus(prev, sourceName, status, skillsCount, err) ==
  [i \in 1..Len(prev) |->
     IF prev[i].name = sourceName
     THEN [prev[i] EXCEPT !.status = status, !.skillsCount = skillsCount,
                          !.error = err]
     ELSE prev[i]]

\* Mutation of Toast: every notification is raised as the same error.
ToastAlwaysError(level, text, total, summary) ==
  [level |-> "error", text |-> "Failed to complete aggregate extraction",
   total |-> 0, summary |-> <<>>]

\* toast.success / toast.error / toast.info with its message.
Toast(level, text, total, summary) ==
  [level |-> level, text |-> text, total |-> total, summary |-> summary]

\* Mutation of SmartPresent: the text fields are tested without trim().
SmartPresentUntrimmed(a) ==
  CASE a = "Document" -> file # Null
    [] a = "GitHub"   -> githubUsername # <<>>
    [] a = "Text"     -> textInput # <<>>

\* Whether a source is provided: file, githubUsername.trim(), textInput.trim().
SmartPresent(a) ==
  CASE a = "Document" -> file # Null
    [] a = "GitHub"   -> trim(githubUsername) # <<>>
    [] a = "Text"     -> trim(textInput) # <<>>

RECURSIVE SelectPresent(_, _)
SelectPresent(order, present) ==
  IF order = <<>> THEN <<>>
  ELSE IF Head(order) \in present
       THEN <<Head(order)>> \o SelectPresent(Tail(order), present)
       ELSE SelectPresent(Tail(order), present)

\* availableSources, each pending.
AvailableSources ==
  LET names == SelectPresent(AdapterOrder, {a \in Adapters : SmartPresent(a)})
  IN [i \in 1..Len(names) |-> Source(names[i], "pending", 0, NoError)]

\* The label each Smart adapter writes into `source`, and its defaults.
SmartLabel(a) ==
  CASE a = "Document" -> LblDocument
    [] a = "GitHub"   -> LblGitHub
    [] a = "Text"     -> LblTextInput

\* s.cluster || 'Other' (GitHub: 'Technical'), microstory || '', state || ..
OrElse(v, dflt) == IF v = "" THEN dflt ELSE v

\* (data.skills || []).map(s => ({ ...s, source, evidence, cluster, .. }))
SmartTag(a, skills) ==
  [i \in 1..Len(skills) |->
     [skill_name |-> skills[i].skill_name,
      skill_type |-> skills[i].skill_type,
      confidence_score |-> skills[i].confidence_score,
      evidence |-> skills[i].evidence,
      cluster |-> OrElse(skills[i].cluster,
                         IF a = "GitHub" THEN "Technical" ELSE "Other"),
      microstory |-> skills[i].microstory,
      state |-> OrElse(skills[i].state, Unlocked),
      source |-> SmartLabel(a)]]

\* The user edits an input (the controls are disabled while extracting).
SetFile ==
  /\ component = "Smart" /\ pc = "idle" /\ ~isExtracting
  /\ \E f \in {Null, "cv.pdf"} : file' = f
  /\ UNCHANGED <<component, pc, textInput, githubUsername, githubToken,
                 autoMerge, isExtracting, progress, sources, indexVars,
                 runVars, fnVars, edgeVars, questVars>>

SetTextInput ==
  /\ component = "Smart" /\ pc = "idle" /\ ~isExtracting
  /\ \E t \in TextInputs : textInput' = t
  /\ UNCHANGED <<component, pc, file, githubUsername, githubToken,
                 autoMerge, isExtracting, progress, sources, indexVars,
                 runVars, fnVars, edgeVars, questVars>>

SetGithubUsername ==
  /\ component = "Smart" /\ pc = "idle" /\ ~isExtracting
  /\ \E u \in UserInputs : githubUsername' = u
  /\ UNCHANGED <<component, pc, file, textInput, githubToken,
                 autoMerge, isExtracting, progress, sources, indexVars,
                 runVars, fnVars, edgeVars, questVars>>

SetGithubToken ==
  /\ component = "Smart" /\ pc = "idle" /\ ~isExtracting
  /\ \E t \in TokenInputs : githubToken' = t
  /\ UNCHANGED <<component, pc, file, textInput, githubUsername,
                 autoMerge, isExtracting, progress, sources, indexVars,
                 runVars, fnVars, edgeVars, questVars>>

SetAutoMerge ==
  /\ component = "Smart" /\ pc = "idle" /\ ~isExtracting
  /\ autoMerge' = ~autoMerge
  /\ UNCHANGED <<component, pc, file, textInput, githubUsername, githubToken,
                 isExtracting, progress, sources, indexVars, runVars, fnVars, edgeVars, questVars>>

\* handleAggregateExtract, no source available: toast.error and return.
SmartRejectNoInput ==
  /\ component = "Smart" /\ pc = "idle" /\ rejects < MaxRejects
  /\ AvailableSources = <<>>
  /\ toasts' = Append(toasts,
       Toast("error", "Please provide at least one data source (Document, GitHub, or Text)", 0, <<>>))
  /\ rejects' = rejects + 1
  /\ UNCHANGED <<component, pc, smartVars, indexVars, task, request, results,
                 mergedSkills, inserts, saved, completions, capturedSources, outcome, settleOrder, statusAtMerge,
                 fnVars, edgeVars, questVars>>

\* handleAggregateExtract up to `await Promise.all`: the status list is set,
\* and each present extractFrom* runs to its first await (status processing,
\* parseDocument or invoke issued).
SmartStart ==
  /\ component = "Smart" /\ pc = "idle"
  /\ AvailableSources # <<>>
  /\ isExtracting' = TRUE
  /\ progress' = 0
  /\ capturedSources' = sources
  /\ LET s0 == AvailableSources
         s1 == IF SmartPresent("Document")
               THEN updateSourceStatus(s0, "Document", "processing", 0, NoError)
               ELSE s0
         s2 == IF SmartPresent("GitHub")
               THEN updateSourceStatus(s1, "GitHub", "processing", 0, NoError)
               ELSE s1
         s3 == IF SmartPresent("Text")
               THEN updateSourceStatus(s2, "Text", "processing", 0, NoError)
               ELSE s2
     IN sources' = s3
  /\ task' = [a \in Adapters |->
               IF ~SmartPresent(a) THEN "absent"
               ELSE IF a = "Document" THEN "parsing" ELSE "invoking"]
  /\ request' = [a \in Adapters |->
               CASE a = "GitHub" /\ SmartPresent(a) ->
                      [username |-> githubUsername,
                       token |-> IF githubToken = NoText THEN Undefined
                                 ELSE githubToken]
                 [] a = "Text" /\ SmartPresent(a) -> [text |-> textInput]
                 [] OTHER -> <<>>]
  /\ pc' = "awaitAll"
  /\ UNCHANGED <<component, file, textInput, githubUsername, githubToken,
                 autoMerge, indexVars, results, mergedSkills, inserts, saved,
                 toasts, completions, rejects, outcome, settleOrder, statusAtMerge,
                 fnVars, edgeVars, questVars>>

\* The tail of an extractFrom*: the invoke settled.
SmartSettle(a, resp) ==
  IF resp.kind = "ok"
  THEN /\ results' = [results EXCEPT ![a] = SmartTag(a, resp.skills)]
       /\ sources' = updateSourceStatus(sources, a, "completed",
                                        Len(resp.skills), NoError)
       /\ outcome' = [outcome EXCEPT ![a] = "ok"]
       /\ settleOrder' = Append(settleOrder, a)
  ELSE /\ results' = [results EXCEPT ![a] = <<>>]
       /\ sources' = updateSourceStatus(sources, a, "error", 0, resp.message)
       /\ outcome' = [outcome EXCEPT ![a] = "failed"]
       /\ settleOrder' = Append(settleOrder, a)

\* extractFromDocument after `await parseDocument(file)`.
SmartDocumentParsed ==
  /\ component = "Smart" /\ pc = "awaitAll" /\ task["Document"] = "parsing"
  /\ \E text \in ParseOutcomes :
       IF text = ParseThrows
       THEN /\ sources' = updateSourceStatus(sources, "Document", "error", 0,
                                             "Unsupported file type")
            /\ task' = [task EXCEPT !["Document"] = "settled"]
            /\ outcome' = [outcome EXCEPT !["Document"] = "failed"]
            /\ settleOrder' = Append(settleOrder, "Document")
            /\ UNCHANGED request
       ELSE IF text = NoText
       THEN /\ sources' = updateSourceStatus(sources, "Document", "error", 0,
                                             "Failed to parse document")
            /\ task' = [task EXCEPT !["Document"] = "settled"]
            /\ outcome' = [outcome EXCEPT !["Document"] = "failed"]
            /\ settleOrder' = Append(settleOrder, "Document")
            /\ UNCHANGED request
       ELSE /\ request' = [request EXCEPT !["Document"] = [text |-> text]]
            /\ task' = [task EXCEPT !["Document"] = "invoking"]
            /\ UNCHANGED <<sources, outcome, settleOrder>>
  /\ UNCHANGED <<component, pc, file, textInput, githubUsername, githubToken,
                 autoMerge, isExtracting, progress, indexVars, results,
                 mergedSkills, inserts, saved, toasts, completions, rejects,
                 capturedSources, statusAtMerge, fnVars, edgeVars, questVars>>

\* extractFromDocument after `await supabase.functions.invoke`.
SmartDocumentSettled ==
  /\ component = "Smart" /\ pc = "awaitAll" /\ task["Document"] = "invoking"
  /\ \E resp \in ExtractSkillsResponses(request["Document"].text) :
       SmartSettle("Document", resp)
  /\ task' = [task EXCEPT !["Document"] = "settled"]
  /\ UNCHANGED <<component, pc, file, textInput, githubUsername, githubToken,
                 autoMerge, isExtracting, progress, indexVars, request,
                 mergedSkills, inserts, saved, toasts, completions, rejects,
                 capturedSources, statusAtMerge, fnVars, edgeVars, questVars>>

\* extractFromGitHub after `await supabase.functions.invoke`.
SmartGitHubSettled ==
  /\ component = "Smart" /\ pc = "awaitAll" /\ task["GitHub"] = "invoking"
  /\ \E resp \in GithubSkillExtractResponses(request["GitHub"]) :
       SmartSettle("GitHub", resp)
  /\ task' = [task EXCEPT !["GitHub"] = "settled"]
  /\ UNCHANGED <<component, pc, file, textInput, githubUsername, githubToken,
                 autoMerge, isExtracting, progress, indexVars, request,
                 mergedSkills, inserts, saved, toasts, completions, rejects,
                 capturedSources, statusAtMerge, fnVars, edgeVars, questVars>>

\* extractFromText after `await supabase.functions.invoke`.
SmartTextSettled ==
  /\ component = "Smart" /\ pc = "awaitAll" /\ task["Text"] = "invoking"
  /\ \E resp \in ExtractSkillsResponses(request["Text"].text) :
       SmartSettle("Text", resp)
  /\ task' = [task EXCEPT !["Text"] = "settled"]
  /\ UNCHANGED <<component, pc, file, textInput, githubUsername, githubToken,
                 autoMerge, isExtracting, progress, indexVars, request,
                 mergedSkills, inserts, saved, toasts, completions, rejects,
                 capturedSources, statusAtMerge, fnVars, edgeVars, questVars>>

\* The owning profile (prop profileId of SmartAggregateExtract, state of Index).
ProfileP1 == "p1"

\* mergedSkills.map(skill => ({ profile_id, skill_name, ... }))
SkillsToInsert(pid, merged) ==
  [i \in 1..Len(merged) |->
     [profile_id |-> pid,
      skill_name |-> merged[i].skill_name,
      skill_type |-> merged[i].skill_type,
      confidence_score |-> merged[i].confidence_score,
      evidence |-> merged[i].evidence,
      cluster |-> OrElse(merged[i].cluster, "Other"),
      microstory |-> merged[i].microstory,
      state |-> OrElse(merged[i].state, Unlocked)]]

\* Mutation of ResultsArray: the results in the order the promises settled.
ResultsArrayInSettleOrder(res, tk) ==
  [i \in 1..Len(settleOrder) |-> res[settleOrder[i]]]

\* The results of Promise.all, in the order the promises were pushed.
ResultsArray(res, tk) ==
  LET names == SelectPresent(AdapterOrder, {a \in Adapters : tk[a] # "absent"})
  IN [i \in 1..Len(names) |-> res[names[i]]]

\* autoMerge ? mergeSkills(results) : results.flat()
SmartMerged(res, tk) ==
  IF autoMerge THEN mergeSkills(ResultsArray(res, tk))
  ELSE Flat(ResultsArray(res, tk))

\* Mutation of AllSettled: the handler resumes when the first task settles
\* (Promise.race in place of Promise.all).
AllSettledRace(tk) == \E a \in Adapters : tk[a] = "settled"

\* await Promise.all(extractionPromises) resumes when every task has settled.
AllSettled(tk) == \A a \in Adapters : tk[a] \in {"absent", "settled"}

\* Mutation of SmartAfterAll: with nothing to save the handler returns
\* without its finally block.
SmartAfterAllLeavesFlag ==
  /\ component = "Smart" /\ pc = "awaitAll" /\ AllSettled(task)
  /\ LET merged == SmartMerged(results, task) IN
     /\ mergedSkills' = merged
     /\ statusAtMerge' = [a \in Adapters |-> SmartStatus(sources, a)]
     /\ IF Len(merged) > 0
        THEN /\ inserts' = Append(inserts, SkillsToInsert(ProfileP1, merged))
             /\ progress' = 75
             /\ pc' = "inserting"
             /\ UNCHANGED <<toasts, isExtracting>>
        ELSE /\ toasts' = Append(toasts,
                  Toast("info", "No skills were extracted from the provided sources", 0, <<>>))
             /\ pc' = "done"
             /\ UNCHANGED <<inserts, isExtracting, progress>>
  /\ UNCHANGED <<component, file, textInput, githubUsername, githubToken,
                 autoMerge, sources, indexVars, task, request, results, saved,
                 completions, rejects, capturedSources, outcome, settleOrder, fnVars,
                 edgeVars, questVars>>

\* handleAggregateExtract from the resolution of Promise.all to the insert
\* (or, with nothing to save, to the end of the finally block).
SmartAfterAll ==
  /\ component = "Smart" /\ pc = "awaitAll" /\ AllSettled(task)
  /\ LET merged == SmartMerged(results, task) IN
     /\ mergedSkills' = merged
     /\ statusAtMerge' = [a \in Adapters |-> SmartStatus(sources, a)]
     /\ IF Len(merged) > 0
        THEN /\ inserts' = Append(inserts, SkillsToInsert(ProfileP1, merged))
             /\ progress' = 75
             /\ pc' = "inserting"
             /\ UNCHANGED <<toasts, isExtracting>>
        ELSE /\ toasts' = Append(toasts,
                  Toast("info", "No skills were extracted from the provided sources", 0, <<>>))
             /\ isExtracting' = FALSE
             /\ progress' = 0
             /\ pc' = "done"
             /\ UNCHANGED inserts
  /\ UNCHANGED <<component, file, textInput, githubUsername, githubToken,
                 autoMerge, sources, indexVars, task, request, results, saved,
                 completions, rejects, capturedSources, outcome, settleOrder, fnVars, edgeVars, questVars>>

\* sources.filter(s => s.status === 'completed').map(s => `${name}: ${count}`)
\* over the `sources` value the handler closed over.
SourceSummary(srcs) ==
  LET RECURSIVE Pick(_)
      Pick(xs) ==
        IF xs = <<>> THEN <<>>
        ELSE IF Head(xs).status = "completed"
             THEN <<[name |-> Head(xs).name, count |-> Head(xs).skillsCount]>>
                  \o Pick(Tail(xs))
             ELSE Pick(Tail(xs))
  IN Pick(srcs)

\* Mutation of SmartInsertSettled: the inputs are reset in the finally block,
\* whether or not the insert succeeded.
SmartInsertSettledResetsInFinally ==
  /\ component = "Smart" /\ pc = "inserting"
  /\ \E insertError \in BOOLEAN :
       IF ~insertError
       THEN /\ saved' = saved \o inserts[Len(inserts)]
            /\ toasts' = Append(toasts,
                 Toast("success", "Unified Skill Extraction Complete!",
                       Len(mergedSkills), SourceSummary(capturedSources)))
            /\ completions' = completions + 1
       ELSE /\ toasts' = Append(toasts,
                 Toast("error", "Failed to complete aggregate extraction", 0, <<>>))
            /\ UNCHANGED <<saved, completions>>
  /\ file' = Null /\ textInput' = NoText
  /\ githubUsername' = NoText /\ githubToken' = NoText
  /\ isExtracting' = FALSE
  /\ progress' = 0
  /\ pc' = "done"
  /\ UNCHANGED <<component, autoMerge, sources, indexVars, task, request,
                 results, mergedSkills, inserts, rejects, capturedSources,
                 outcome, settleOrder, statusAtMerge, fnVars, edgeVars, questVars>>

\* handleAggregateExtract after `await ...insert(skillsToInsert)`.
SmartInsertSettled ==
  /\ component = "Smart" /\ pc = "inserting"
  /\ \E insertError \in BOOLEAN :
       IF ~insertError
       THEN /\ saved' = saved \o inserts[Len(inserts)]
            /\ toasts' = Append(toasts,
                 Toast("success", "Unified Skill Extraction Complete!",
                       Len(mergedSkills), SourceSummary(capturedSources)))
            /\ completions' = completions + 1
            /\ file' = Null /\ textInput' = NoText
            /\ githubUsername' = NoText /\ githubToken' = NoText
       ELSE /\ toasts' = Append(toasts,
                 Toast("error", "Failed to complete aggregate extraction", 0, <<>>))
            /\ UNCHANGED <<saved, completions, file, textInput,
                           githubUsername, githubToken>>
  /\ isExtracting' = FALSE
  /\ progress' = 0
  /\ pc' = "done"
  /\ UNCHANGED <<component, autoMerge, sources, indexVars, task, request,
                 results, mergedSkills, inserts, rejects, capturedSources, outcome, settleOrder, statusAtMerge,
                 fnVars, edgeVars, questVars>>

\* ------------------------------------------- Index.handleAggregateExtract
IndexPresent(a) ==
  CASE a = "Document" -> pendingFile # Null
    [] a = "GitHub"   -> trim(pendingGithub.username) # <<>>
    [] a = "Text"     -> trim(pendingText) # <<>>

\* const hasData = pendingFile || pendingText.trim() || username.trim()
HasData == \E a \in Adapters : IndexPresent(a)

IndexLabel(a) ==
  CASE a = "Document" -> LblDocument
    [] a = "GitHub"   -> LblGitHub
    [] a = "Text"     -> LblText

\* data.skills.map(s => ({ ...s, source }))
IndexTag(a, skills) ==
  [i \in 1..Len(skills) |->
     [skill_name |-> skills[i].skill_name,
      skill_type |-> skills[i].skill_type,
      confidence_score |-> skills[i].confidence_score,
      evidence |-> skills[i].evidence,
      cluster |-> skills[i].cluster,
      microstory |-> skills[i].microstory,
      state |-> skills[i].state,
      source |-> IndexLabel(a)]]

\* allSkills, in push order (the blocks run in AdapterOrder).
AllSkills(res) == res["Document"] \o res["GitHub"] \o res["Text"]

\* The profile loads (loadUserProfile) and the child components report input.
LoadUserProfile ==
  /\ component = "Index" /\ pc = "idle" /\ profileId = Null
  /\ profileId' = ProfileP1
  /\ UNCHANGED <<component, pc, smartVars, pendingFile, pendingText,
                 pendingGithub, processing, aggregateProgress, runVars, fnVars, edgeVars, questVars>>

SetPendingFile ==
  /\ component = "Index" /\ pc = "idle"
  /\ \E f \in {Null, "cv.pdf"} : pendingFile' = f
  /\ UNCHANGED <<component, pc, smartVars, profileId, pendingText,
                 pendingGithub, processing, aggregateProgress, runVars, fnVars, edgeVars, questVars>>

SetPendingText ==
  /\ component = "Index" /\ pc = "idle"
  /\ \E t \in TextInputs : pendingText' = t
  /\ UNCHANGED <<component, pc, smartVars, profileId, pendingFile,
                 pendingGithub, processing, aggregateProgress, runVars, fnVars, edgeVars, questVars>>

SetPendingGithub ==
  /\ component = "Index" /\ pc = "idle"
  /\ \E u \in UserInputs, t \in TokenInputs :
       pendingGithub' = [username |-> u, token |-> t]
  /\ UNCHANGED <<component, pc, smartVars, profileId, pendingFile,
                 pendingText, processing, aggregateProgress, runVars, fnVars, edgeVars, questVars>>

\* handleAggregateExtract without data: toast.error and return.
IndexRejectNoInput ==
  /\ component = "Index" /\ pc = "idle" /\ rejects < MaxRejects
  /\ ~HasData
  /\ toasts' = Append(toasts,
       Toast("error", "Please provide at least one data source", 0, <<>>))
  /\ rejects' = rejects + 1
  /\ UNCHANGED <<component, pc, smartVars, indexVars, task, request, results,
                 mergedSkills, inserts, saved, completions, capturedSources, outcome, settleOrder, statusAtMerge,
                 fnVars, edgeVars, questVars>>

\* The synchronous code from the end of block `after` (0: the start) to the
\* next await: the next present block is entered, or the merge runs and the
\* insert is issued, or (nothing to save) the handler ends.
IndexAdvance(after, ap, tk, res) ==
  LET nexts == {i \in (after + 1)..3 : IndexPresent(AdapterOrder[i])} IN
  IF nexts # {}
  THEN LET i == CHOOSE j \in nexts : \A k \in nexts : j <= k
           a == AdapterOrder[i]
       IN /\ aggregateProgress' = [ap EXCEPT ![a] = Processing]
          /\ task' = [tk EXCEPT ![a] =
                        IF a = "Document" THEN "parsing" ELSE "invoking"]
          /\ request' = [request EXCEPT ![a] =
                CASE a = "GitHub" ->
                       [username |-> pendingGithub.username,
                        token |-> IF pendingGithub.token = NoText
                                  THEN Undefined ELSE pendingGithub.token]
                  [] a = "Text" -> [text |-> pendingText]
                  [] OTHER -> <<>>]
          /\ pc' = "extracting"
          /\ processing' = TRUE
          /\ UNCHANGED <<mergedSkills, inserts, toasts, statusAtMerge>>
  ELSE LET merged == IndexMerge(AllSkills(res)) IN
       /\ mergedSkills' = merged
       /\ statusAtMerge' = [a \in Adapters |-> IndexStatus(ap, a)]
       /\ task' = tk
       /\ UNCHANGED request
       /\ IF Len(merged) > 0
          THEN /\ inserts' = Append(inserts, SkillsToInsert(profileId, merged))
               /\ aggregateProgress' = ap
               /\ processing' = TRUE
               /\ pc' = "inserting"
               /\ UNCHANGED toasts
          ELSE /\ toasts' = Append(toasts,
                    Toast("info", "No skills were extracted from the provided sources", 0, <<>>))
               /\ processing' = FALSE
               /\ aggregateProgress' = NoProgress
               /\ pc' = "done"
               /\ UNCHANGED inserts

BlockIndex(a) == CHOOSE i \in 1..3 : AdapterOrder[i] = a

\* handleAggregateExtract from the click to its first await.
IndexStart ==
  /\ component = "Index" /\ pc = "idle"
  /\ HasData
  /\ profileId # Null
  /\ IndexAdvance(0, NoProgress, task, results)
  /\ UNCHANGED <<component, smartVars, profileId, pendingFile, pendingText,
                 pendingGithub, results, saved, completions, rejects,
                 capturedSources, outcome, settleOrder, fnVars, edgeVars, questVars>>

\* The document block after `await parseDocument(pendingFile)`.
IndexDocumentParsed ==
  /\ component = "Index" /\ pc = "extracting" /\ task["Document"] = "parsing"
  /\ \E text \in ParseOutcomes :
       IF text = ParseThrows
       THEN /\ outcome' = [outcome EXCEPT !["Document"] = "failed"]
            /\ settleOrder' = Append(settleOrder, "Document")
            /\ IndexAdvance(1,
                 [aggregateProgress EXCEPT !["Document"] = Failed],
                 [task EXCEPT !["Document"] = "settled"], results)
       ELSE IF text = NoText
       THEN /\ outcome' = [outcome EXCEPT !["Document"] = "failed"]
            /\ settleOrder' = Append(settleOrder, "Document")
            /\ IndexAdvance(1, aggregateProgress,
                 [task EXCEPT !["Document"] = "settled"], results)
       ELSE /\ request' = [request EXCEPT !["Document"] = [text |-> text]]
            /\ task' = [task EXCEPT !["Document"] = "invoking"]
            /\ UNCHANGED <<aggregateProgress, processing, pc, mergedSkills,
                           inserts, toasts, outcome, settleOrder, statusAtMerge>>
  /\ UNCHANGED <<component, smartVars, profileId, pendingFile, pendingText,
                 pendingGithub, results, saved, completions, rejects,
                 capturedSources, fnVars, edgeVars, questVars>>

\* A block after `await supabase.functions.invoke`:
\*   if (!error && data?.skills) { push; progress ok }   catch { Failed }
IndexSettle(a, resp) ==
  LET tk == [task EXCEPT ![a] = "settled"] IN
  IF resp.kind = "ok"
  THEN LET res == [results EXCEPT ![a] = IndexTag(a, resp.skills)] IN
       /\ results' = res
       /\ outcome' = [outcome EXCEPT ![a] = "ok"]
       /\ settleOrder' = Append(settleOrder, a)
       /\ IndexAdvance(BlockIndex(a),
            [aggregateProgress EXCEPT ![a] = Extracted(Len(resp.skills))],
            tk, res)
  ELSE IF resp.kind = "throw"
  THEN /\ UNCHANGED results
       /\ outcome' = [outcome EXCEPT ![a] = "failed"]
       /\ settleOrder' = Append(settleOrder, a)
       /\ IndexAdvance(BlockIndex(a),
            [aggregateProgress EXCEPT ![a] = Failed], tk, results)
  ELSE /\ UNCHANGED results
       /\ outcome' = [outcome EXCEPT ![a] = "failed"]
       /\ settleOrder' = Append(settleOrder, a)
       /\ IndexAdvance(BlockIndex(a), aggregateProgress, tk, results)

IndexDocumentSettled ==
  /\ component = "Index" /\ pc = "extracting" /\ task["Document"] = "invoking"
  /\ \E resp \in ExtractSkillsResponses(request["Document"].text) :
       IndexSettle("Document", resp)
  /\ UNCHANGED <<component, smartVars, profileId, pendingFile, pendingText,
                 pendingGithub, saved, completions, rejects, capturedSources,
                 fnVars, edgeVars, questVars>>

IndexGitHubSettled ==
  /\ component = "Index" /\ pc = "extracting" /\ task["GitHub"] = "invoking"
  /\ \E resp \in GithubSkillExtractResponses(request["GitHub"]) :
       IndexSettle("GitHub", resp)
  /\ UNCHANGED <<component, smartVars, profileId, pendingFile, pendingText,
                 pendingGithub, saved, completions, rejects, capturedSources,
                 fnVars, edgeVars, questVars>>

IndexTextSettled ==
  /\ component = "Index" /\ pc = "extracting" /\ task["Text"] = "invoking"
  /\ \E resp \in ExtractSkillsResponses(request["Text"].text) :
       IndexSettle("Text", resp)
  /\ UNCHANGED <<component, smartVars, profileId, pendingFile, pendingText,
                 pendingGithub, saved, completions, rejects, capturedSources,
                 fnVars, edgeVars, questVars>>

\* After `await ...insert(skillsToInsert)`: on error the catch and finally
\* blocks run; otherwise loadSkills is awaited.
IndexInsertSettled ==
  /\ component = "Index" /\ pc = "inserting"
  /\ \E insertError \in BOOLEAN :
       IF ~insertError
       THEN /\ saved' = saved \o inserts[Len(inserts)]
            /\ completions' = completions + 1
            /\ pc' = "loading"
            /\ UNCHANGED <<toasts, processing, aggregateProgress>>
       ELSE /\ toasts' = Append(toasts,
                 Toast("error", "Failed to complete aggregate extraction", 0, <<>>))
            /\ processing' = FALSE
            /\ aggregateProgress' = NoProgress
            /\ pc' = "done"
            /\ UNCHANGED <<saved, completions>>
  /\ UNCHANGED <<component, smartVars, profileId, pendingFile, pendingText,
                 pendingGithub, task, request, results, mergedSkills, inserts,
                 rejects, capturedSources, outcome, settleOrder, statusAtMerge, fnVars, edgeVars, questVars>>

\* After `await loadSkills(profileId)`: success toast, inputs cleared, finally.
IndexSkillsLoaded ==
  /\ component = "Index" /\ pc = "loading"
  /\ toasts' = Append(toasts,
       Toast("success", "Aggregate Extraction Complete!", Len(mergedSkills), <<>>))
  /\ pendingFile' = Null
  /\ pendingText' = NoText
  /\ pendingGithub' = [username |-> NoText, token |-> NoText]
  /\ processing' = FALSE
  /\ aggregateProgress' = NoProgress
  /\ pc' = "done"
  /\ UNCHANGED <<component, smartVars, profileId, task, request, results,
                 mergedSkills, inserts, saved, completions, rejects,
                 capturedSources, outcome, settleOrder, statusAtMerge, fnVars, edgeVars, questVars>>

\* ------------------------------------------------- the merge as a function
\* Skill names a candidate may carry: two spellings of one key, one other key.
Names == {NamePy, NamePyPad, NameGo}

LabelsOf(comp) == IF comp = "Smart" THEN SmartLabels ELSE IndexLabels

MergeInit ==
  /\ fnComponent \in {"Smart", "Index"}
  /\ fnInput = <<>>
  /\ fnOutput = <<>>
  /\ fnDone = FALSE
  /\ fnHeap = NoObjects
  /\ component = "none"
  /\ RunIdle /\ EdgeIdle /\ QuestIdle

\* The caller grows the candidate list by one tagged candidate.
AddCandidate ==
  /\ ~fnDone
  /\ Len(fnInput) < MaxLen
  /\ \E name \in Names, shape \in Shapes, src \in LabelsOf(fnComponent) :
       fnInput' = Append(fnInput, MkSkill(name, shape, src))
  /\ UNCHANGED <<fnComponent, fnOutput, fnDone, fnHeap, component, pc,
                 smartVars, indexVars, runVars, edgeVars, questVars>>

\* mergeSkills(results): the list is split into two per-source arrays.
CallMergeSkills ==
  /\ ~fnDone
  /\ fnComponent = "Smart"
  /\ LET k == Len(fnInput) \div 2 IN
     fnOutput' = mergeSkills(<<SubSeq(fnInput, 1, k),
                               SubSeq(fnInput, k + 1, Len(fnInput))>>)
  /\ fnHeap' = MergeByReference(fnInput)
  /\ fnDone' = TRUE
  /\ UNCHANGED <<fnComponent, fnInput, component, pc, smartVars, indexVars,
                 runVars, edgeVars, questVars>>

\* The inline merge of Index.handleAggregateExtract over allSkills.
CallIndexMerge ==
  /\ ~fnDone
  /\ fnComponent = "Index"
  /\ fnOutput' = IndexMerge(fnInput)
  /\ fnHeap' = MergeByReference(fnInput)
  /\ fnDone' = TRUE
  /\ UNCHANGED <<fnComponent, fnInput, component, pc, smartVars, indexVars,
                 runVars, edgeVars, questVars>>

MergeNext == AddCandidate \/ CallMergeSkills \/ CallIndexMerge

MergeSpec == MergeInit /\ [][MergeNext]_vars

\* ============================================ the edge functions, alone
\* JSON values as the oracle may send them: a one-field record names the type.
JsUndef  == [undef |-> TRUE]
JsNaN    == [nan |-> TRUE]
JsNum(n) == [num |-> n]
JsStr(s) == [str |-> s]
JsArr(a) == [arr |-> a]

IsUndef(x) == "undef" \in DOMAIN x
IsNaN(x)   == "nan" \in DOMAIN x
IsNum(x)   == "num" \in DOMAIN x
IsStr(x)   == "str" \in DOMAIN x
IsArr(x)   == "arr" \in DOMAIN x

\* Truthiness: undefined, NaN, 0 and '' are falsy.
Truthy(x) ==
  CASE IsUndef(x) -> FALSE
    [] IsNaN(x)   -> FALSE
    [] IsNum(x)   -> x.num # 0
    [] IsStr(x)   -> x.str # <<>>
    [] OTHER      -> TRUE

\* a ?? b
Coalesce(a, b) == IF IsUndef(a) THEN b ELSE a

\* a || b
OrJs(a, b) == IF Truthy(a) THEN a ELSE b

Digits == <<"0", "1", "2", "3", "4", "5", "6", "7", "8", "9">>
IsDigit(c) == \E d \in 1..10 : Digits[d] = c
DigitValue(c) == (CHOOSE d \in 1..10 : Digits[d] = c) - 1

RECURSIVE ParseDigits(_)
ParseDigits(s) ==
  IF s = <<>> THEN 0
  ELSE 10 * ParseDigits(SubSeq(s, 1, Len(s) - 1)) + DigitValue(s[Len(s)])

\* Number(x), in units of 1/ConfOne: a number is itself, a blank string is 0,
\* a string of digits is its value, anything else is NaN.
Number(x) ==
  CASE IsNum(x) -> x
    [] IsStr(x) ->
         LET t == trim(x.str) IN
         IF t = <<>> THEN JsNum(0)
         ELSE IF \A i \in 1..Len(t) : IsDigit(t[i])
              THEN JsNum(ParseDigits(t) * ConfOne)
              ELSE JsNaN
    [] IsArr(x) -> IF x.arr = <<>> THEN JsNum(0) ELSE JsNaN
    [] OTHER -> JsNaN

\* String(x) of a string or of undefined.
String(x) ==
  CASE IsStr(x)   -> x.str
    [] IsUndef(x) -> <<"u","n","d","e","f","i","n","e","d">>
    [] IsNaN(x)   -> <<"N","a","N">>
    [] OTHER      -> <<"?">>

Max(a, b) == IF a >= b THEN a ELSE b
Min(a, b) == IF a <= b THEN a ELSE b

\* xs.slice(0, n)
Slice(xs, n) == SubSeq(xs, 1, Min(n, Len(xs)))

\* evidence.slice(0, 3) in extract-skills, .slice(0, 5) in github-skill-extract
ExtractEvidenceLimit == 3
GithubEvidenceLimit == 5

StrLocked    == <<"l","o","c","k","e","d">>
StrUnlocked  == <<"u","n","l","o","c","k","e","d">>
StrExplicit  == <<"e","x","p","l","i","c","i","t">>
StrImplicit  == <<"i","m","p","l","i","c","i","t">>
StrOther     == <<"O","t","h","e","r">>
StrTechnical == <<"T","e","c","h">>
StrNoStory   == <<"N","o"," ","s","t","o","r","y">>
StrUnknown   == <<"U","n","k","n","o","w","n">>
StrFromGitHub == <<"@","u">>

\* evidence.filter(e => typeof e === 'string' && e.trim()), as the strings.
RECURSIVE KeepEvidence(_)
KeepEvidence(xs) ==
  IF xs = <<>> THEN <<>>
  ELSE IF IsStr(Head(xs)) /\ trim(Head(xs).str) # <<>>
       THEN <<Head(xs).str>> \o KeepEvidence(Tail(xs))
       ELSE KeepEvidence(Tail(xs))

\* .filter((s) => s.skill_name)
RECURSIVE KeepNamed(_)
KeepNamed(xs) ==
  IF xs = <<>> THEN <<>>
  ELSE IF Head(xs).skill_name # <<>>
       THEN <<Head(xs)>> \o KeepNamed(Tail(xs))
       ELSE KeepNamed(Tail(xs))

\* 0.8 and 0.5 in units of 1/ConfOne.
DefaultScore == (ConfOne * 8) \div 10
HalfScore == ConfOne \div 2

\* extract-skills, "Normalize and validate": one oracle record.
NormalizeExtracted(s) ==
  LET name  == trim(String(Coalesce(s.skill_name, Coalesce(s.name, JsStr(<<>>)))))
      type  == IF s.skill_type = JsStr(StrImplicit)
                  \/ s.skill_type = JsStr(StrExplicit)
               THEN s.skill_type.str ELSE StrExplicit
      n0    == Number(Coalesce(s.confidence_score,
                               Coalesce(s.confidence, JsNum(DefaultScore))))
      n1    == IF IsNaN(n0) THEN DefaultScore ELSE n0.num
      score == Max(0, Min(ConfOne, n1))
      ev0   == IF IsArr(s.evidence) THEN s.evidence.arr ELSE <<>>
      state == OrJs(s.state,
                    JsStr(IF score < HalfScore THEN StrLocked ELSE StrUnlocked))
  IN [skill_name |-> name,
      skill_type |-> type,
      confidence_score |-> JsNum(score),
      evidence |-> Slice(KeepEvidence(ev0), ExtractEvidenceLimit),
      cluster |-> OrJs(s.cluster, JsStr(StrOther)),
      microstory |-> trim(String(OrJs(s.microstory, JsStr(StrNoStory)))),
      state |-> state]

\* (skills || []).filter(Boolean).map(normalize).filter(s => s.skill_name)
NormalizeExtractedList(skills) ==
  KeepNamed([i \in 1..Len(skills) |-> NormalizeExtracted(skills[i])])

\* Math.min(Math.max(x, 0), 1) with its coercion to a number.
Clamp01(x) ==
  LET n == Number(x) IN
  IF IsNum(n) THEN JsNum(Min(Max(n.num, 0), ConfOne)) ELSE JsNaN

\* x >= 0.5 with its coercion to a number (false for NaN).
AtLeastHalf(x) ==
  LET n == Number(x) IN IsNum(n) /\ n.num >= HalfScore

\* github-skill-extract, "Normalize and validate skills": one oracle record.
NormalizeGithub(skill) ==
  [skill_name |-> OrJs(skill.skill_name, JsStr(StrUnknown)),
   skill_type |-> OrJs(skill.skill_type, JsStr(StrExplicit)),
   confidence_score |-> Clamp01(OrJs(skill.confidence_score, JsNum(HalfScore))),
   evidence |-> IF IsArr(skill.evidence)
                THEN Slice(skill.evidence.arr, GithubEvidenceLimit)
                ELSE <<>>,
   cluster |-> OrJs(skill.cluster, JsStr(StrTechnical)),
   microstory |-> OrJs(skill.microstory, JsStr(StrFromGitHub)),
   state |-> JsStr(IF AtLeastHalf(skill.confidence_score)
                   THEN StrUnlocked ELSE StrLocked)]

\* skills.map(normalize)
NormalizeGithubList(skills) ==
  [i \in 1..Len(skills) |-> NormalizeGithub(skills[i])]

\* ----------------------------------------------- what the oracle may send
\* At most this many records in one oracle answer.
MaxOracle == 2

StrPro == <<"p","r","o">>
StrMax == <<"m","a","x">>
StrHi  == <<"h","i">>
StrE1  == <<"e","1">>
StrE2  == <<"e","2">>
StrE3  == <<"e","3">>
StrE4  == <<"e","4">>

\* A well-formed record: every field as the tool schema asks, state omitted.
GoodRaw ==
  [skill_name |-> JsStr(NamePy), name |-> JsUndef,
   skill_type |-> JsStr(StrImplicit),
   confidence_score |-> JsNum(64), confidence |-> JsUndef,
   evidence |-> JsArr(<<JsStr(StrE1), JsStr(Blank), JsNum(7), JsStr(StrE2),
                        JsStr(StrE3), JsStr(StrE4)>>),
   cluster |-> JsStr(StrTechnical), microstory |-> JsStr(StrHi),
   state |-> JsUndef]

\* Records that differ from GoodRaw in the name, in the kind, in the
\* evidence, in cluster and story, or in confidence and state.
RawNameVariants ==
  {[GoodRaw EXCEPT !.skill_name = n[1], !.name = n[2]] :
     n \in {<<JsStr(NamePyPad), JsUndef>>, <<JsUndef, JsStr(NameGo)>>,
            <<JsStr(<<>>), JsStr(NameGo)>>, <<JsStr(Blank), JsUndef>>,
            <<JsUndef, JsUndef>>}}

RawTypeVariants ==
  {[GoodRaw EXCEPT !.skill_type = t] : t \in {JsUndef, JsStr(StrPro)}}

RawEvidenceVariants ==
  {[GoodRaw EXCEPT !.evidence = e] : e \in {JsUndef, JsStr(StrE1)}}

RawTextVariants ==
  {[GoodRaw EXCEPT !.cluster = JsUndef, !.microstory = JsUndef]}

RawConfidences ==
  {<<JsUndef, JsUndef>>, <<JsUndef, JsNum(24)>>, <<JsNum(0), JsUndef>>,
   <<JsNum(24), JsUndef>>, <<JsNum(40), JsUndef>>, <<JsNum(64), JsUndef>>,
   <<JsNum(120), JsUndef>>, <<JsNum(0 - 40), JsUndef>>,
   <<JsStr(StrHi), JsUndef>>, <<JsStr(<<>>), JsUndef>>,
   <<JsStr(<<"1">>), JsUndef>>}

RawConfidenceVariants ==
  {[GoodRaw EXCEPT !.confidence_score = c[1], !.confidence = c[2]] :
     c \in RawConfidences}

RawStateVariants ==
  {[GoodRaw EXCEPT !.confidence_score = c, !.state = st] :
     c \in {JsNum(24), JsNum(64)},
     st \in {JsStr(<<>>), JsStr(StrLocked), JsStr(StrUnlocked), JsStr(StrMax)}}

OracleSkills ==
  {GoodRaw} \cup RawNameVariants \cup RawTypeVariants \cup RawEvidenceVariants
  \cup RawTextVariants \cup RawConfidenceVariants \cup RawStateVariants

OracleLists == UNION {[1..n -> OracleSkills] : n \in 0..MaxOracle}

\* A text that should hold JSON: garbage, or a value, possibly inside a code
\* fence or inside prose.
Garbage == [garbage |-> TRUE]
JsonText(value, fenced, prose) ==
  [value |-> value, fenced |-> fenced, prose |-> prose]
IsGarbage(t) == "garbage" \in DOMAIN t

\* The values: an object with a skills field, or a top-level array.
JsObj(skills) == [obj |-> skills]
IsObj(v) == "obj" \in DOMAIN v

ParseFails == [fails |-> TRUE]
Parsed(v)  == [parsed |-> v]
IsParsed(r) == "parsed" \in DOMAIN r

\* JSON.parse(text)
JsonParse(t) ==
  IF IsGarbage(t) THEN ParseFails
  ELSE IF t.fenced \/ t.prose THEN ParseFails
  ELSE Parsed(t.value)

\* clean(s): a leading ```json / ``` and a trailing ``` are removed.
Clean(t) ==
  IF IsGarbage(t) THEN t
  ELSE IF t.prose THEN t
  ELSE JsonText(t.value, FALSE, FALSE)

\* content.slice(indexOf('{'), lastIndexOf('}') + 1): an object stands alone;
\* of an array the text from its first to its last record remains.
BraceSlice(t) ==
  IF IsGarbage(t) THEN Garbage
  ELSE IF IsObj(t.value) THEN JsonText(t.value, FALSE, FALSE)
  ELSE IF Len(t.value.arr) = 1
       THEN JsonText(JsObj(JsUndef), FALSE, FALSE)
       ELSE Garbage

SpecialTexts ==
  {Garbage,
   JsonText(JsObj(JsUndef), FALSE, FALSE),
   JsonText(JsObj(JsStr(StrHi)), FALSE, FALSE),
   JsonText(JsArr(<<GoodRaw>>), FALSE, FALSE),
   JsonText(JsObj(JsArr(<<GoodRaw>>)), TRUE, FALSE),
   JsonText(JsObj(JsArr(<<GoodRaw>>)), FALSE, TRUE),
   JsonText(JsArr(<<GoodRaw>>), FALSE, TRUE)}

ListTexts == {JsonText(JsObj(JsArr(l)), FALSE, FALSE) : l \in OracleLists}
FencedListTexts == {JsonText(JsObj(JsArr(l)), TRUE, FALSE) : l \in OracleLists}

\* What the AI gateway answers extract-skills: a failure status, a tool
\* call with its arguments, a message content, or neither.
GatewayError == [kind |-> "gateway-error"]
NoAnswer     == [kind |-> "empty"]
ToolCall(t)  == [kind |-> "tool", text |-> t]
Content(t)   == [kind |-> "content", text |-> t]

ExtractOracleAnswers ==
  {GatewayError, NoAnswer}
  \cup {ToolCall(t) : t \in ListTexts \cup SpecialTexts}
  \cup {Content(t) : t \in FencedListTexts \cup SpecialTexts}

\* What Gemini answers github-skill-extract: a failure status, no text, or
\* the text of candidates[0].
GithubOracleAnswers ==
  {GatewayError, NoAnswer} \cup {Content(t) : t \in ListTexts \cup SpecialTexts}

\* The value of `skills` after the parsing block of extract-skills.
NoSkills == JsArr(<<>>)

SkillsOfArgs(v) ==
  IF IsObj(v) /\ IsArr(v.obj) THEN v.obj ELSE NoSkills

SkillsOfContent(v) ==
  IF IsObj(v) THEN OrJs(v.obj, NoSkills) ELSE v

ParsedSkills(answer) ==
  CASE answer.kind = "tool" ->
         LET r == JsonParse(answer.text) IN
         IF IsParsed(r) THEN SkillsOfArgs(r.parsed) ELSE NoSkills
    [] answer.kind = "content" ->
         LET r == JsonParse(Clean(answer.text)) IN
         IF IsParsed(r) THEN SkillsOfContent(r.parsed)
         ELSE LET r2 == JsonParse(Clean(BraceSlice(answer.text))) IN
              IF IsParsed(r2) THEN SkillsOfContent(r2.parsed) ELSE NoSkills
    [] OTHER -> NoSkills

\* The extract-skills handler from the gateway's answer to its Response.
ExtractSkillsHandler(answer) ==
  IF answer.kind = "gateway-error"
  THEN ErrResponse("Edge Function returned a non-2xx status code")
  ELSE LET skills == ParsedSkills(answer) IN
       IF IsArr(skills) THEN OkResponse(NormalizeExtractedList(skills.arr))
       ELSE ErrResponse("Edge Function returned a non-2xx status code")

\* The github-skill-extract handler from Gemini's answer to its Response.
GithubSkillExtractHandler(answer) ==
  IF answer.kind # "content"
  THEN ErrResponse("Edge Function returned a non-2xx status code")
  ELSE LET r == JsonParse(answer.text) IN
       IF ~IsParsed(r)
       THEN ErrResponse("Edge Function returned a non-2xx status code")
       ELSE LET skills == IF IsObj(r.parsed)
                          THEN OrJs(r.parsed.obj, NoSkills) ELSE NoSkills
            IN IF IsArr(skills)
               THEN OkResponse(NormalizeGithubList(skills.arr))
               ELSE ErrResponse("Edge Function returned a non-2xx status code")

\* ------------------------------------------------ EdgeSpec: the actions
EdgeSource == IF edgeFn = "extract-skills" THEN "Text" ELSE "GitHub"

EdgeInit ==
  /\ edgeFn \in {"extract-skills", "github-skill-extract"}
  /\ oracleAnswer = <<>> /\ edgeResponse = <<>>
  /\ edgeStatus = <<>> /\ edgeStep = "idle"
  /\ component = "none" /\ RunIdle
  /\ FnIdle
  /\ QuestIdle

\* extractFromText / extractFromGitHub up to the invoke: status processing.
EdgeInvoke ==
  /\ edgeStep = "idle"
  /\ edgeStatus' = updateSourceStatus(
       <<Source(EdgeSource, "pending", 0, NoError)>>,
       EdgeSource, "processing", 0, NoError)
  /\ edgeStep' = "called"
  /\ UNCHANGED <<edgeFn, oracleAnswer, edgeResponse, component, pc,
                 smartVars, indexVars, runVars, fnVars, questVars>>

\* The language model service answers the function's request.
OracleAnswers ==
  /\ edgeStep = "called"
  /\ \E answer \in (IF edgeFn = "extract-skills" THEN ExtractOracleAnswers
                    ELSE GithubOracleAnswers) :
       oracleAnswer' = answer
  /\ edgeStep' = "answered"
  /\ UNCHANGED <<edgeFn, edgeResponse, edgeStatus, component, pc,
                 smartVars, indexVars, runVars, fnVars, questVars>>

ExtractSkillsReturns ==
  /\ edgeStep = "answered" /\ edgeFn = "extract-skills"
  /\ edgeResponse' = ExtractSkillsHandler(oracleAnswer)
  /\ edgeStep' = "returned"
  /\ UNCHANGED <<edgeFn, oracleAnswer, edgeStatus, component, pc,
                 smartVars, indexVars, runVars, fnVars, questVars>>

GithubSkillExtractReturns ==
  /\ edgeStep = "answered" /\ edgeFn = "github-skill-extract"
  /\ edgeResponse' = GithubSkillExtractHandler(oracleAnswer)
  /\ edgeStep' = "returned"
  /\ UNCHANGED <<edgeFn, oracleAnswer, edgeStatus, component, pc,
                 smartVars, indexVars, runVars, fnVars, questVars>>

\* The tail of extractFromText / extractFromGitHub: `if (error) throw error`,
\* else completed with skills.length; the catch block writes error.
EdgeClientSettles ==
  /\ edgeStep = "returned"
  /\ edgeStatus' =
       IF edgeResponse.kind = "ok"
       THEN updateSourceStatus(edgeStatus, EdgeSource, "completed",
                               Len(edgeResponse.skills), NoError)
       ELSE updateSourceStatus(edgeStatus, EdgeSource, "error", 0,
                               edgeResponse.message)
  /\ edgeStep' = "settled"
  /\ UNCHANGED <<edgeFn, oracleAnswer, edgeResponse, component, pc,
                 smartVars, indexVars, runVars, fnVars, questVars>>

EdgeNext ==
  \/ EdgeInvoke \/ OracleAnswers \/ ExtractSkillsReturns
  \/ GithubSkillExtractReturns \/ EdgeClientSettles

EdgeSpec == EdgeInit /\ [][EdgeNext]_vars

\* ================================================= the quest system, alone
\* The skills of the profile, and the loadQuests / update calls in flight.
MaxSkills == 1
MaxInFlight == 2

SkillIds == 1..MaxSkills

\* 0.3 and 0.8 in units of 1/ConfOne.
LowScore == (ConfOne * 3) \div 10
HighScore == (ConfOne * 8) \div 10

\* Rows of table skills: state and confidence_score.
SkillRow(state, score) == [state |-> state, confidence_score |-> score]
SkillRowValues ==
  {SkillRow("locked", LowScore), SkillRow("locked", HighScore),
   SkillRow("unlocked", HighScore)}

\* const lockedSkills = skills.filter(s => s.state === 'locked'), as ids.
lockedSkills(skills) == {id \in SkillIds : skills[id].state = "locked"}

\* A quest row; its id is its position in the table.
QuestRow(skill) == [skill_id |-> skill, is_completed |-> FALSE]
Quest(id, row) ==
  [id |-> id, skill_id |-> row.skill_id, is_completed |-> row.is_completed]

\* 2-3 quests per locked skill
MinQuests == 2
MaxQuests == 3

RECURSIVE Repeat(_, _)
Repeat(x, n) == IF n = 0 THEN <<>> ELSE <<x>> \o Repeat(x, n - 1)

\* lockedSkills.flatMap(skill => shuffled.slice(0, numQuests).map(...))
RECURSIVE NewQuests(_, _)
NewQuests(locked, numQuests) ==
  IF locked = {} THEN <<>>
  ELSE LET skill == CHOOSE id \in locked : \A other \in locked : id <= other
       IN Repeat(QuestRow(skill), numQuests[skill])
            \o NewQuests(locked \ {skill}, numQuests)

\* .from('quests').select('*').in('skill_id', ids)
RECURSIVE SelectQuests(_, _, _)
SelectQuests(rows, from, ids) ==
  IF from > Len(rows) THEN <<>>
  ELSE (IF rows[from].skill_id \in ids THEN <<Quest(from, rows[from])>>
        ELSE <<>>) \o SelectQuests(rows, from + 1, ids)

\* The rows an insert returns: the new rows with their ids.
Inserted(rows, new) ==
  [i \in 1..Len(new) |-> Quest(Len(rows) + i, new[i])]

Without(calls, i) ==
  SubSeq(calls, 1, i - 1) \o SubSeq(calls, i + 1, Len(calls))

\* useEffect(() => { loadQuests(); }, [profileId, lockedSkills]): a render of
\* Index hands over a new lockedSkills array and the effect calls loadQuests.
LoadQuestsCall(skills) ==
  [phase |-> "select", lockedSkills |-> lockedSkills(skills), newQuests |-> <<>>]

InFlight == Len(loads) + reloads + Len(updates)

QuestInit ==
  /\ skillRows \in [SkillIds -> SkillRowValues]
  /\ skillsShown = skillRows
  /\ questRows = <<>> /\ questsShown = <<>>
  /\ loads = <<LoadQuestsCall(skillRows)>>
  /\ reloads = 0 /\ updates = <<>>
  /\ component = "none" /\ RunIdle
  /\ FnIdle
  /\ EdgeIdle

QuestFrame == UNCHANGED <<component, pc, smartVars, indexVars, runVars,
                          fnVars, edgeVars>>

\* onAuthStateChange: setUser renders Index, the [user] effect calls
\* loadUserProfile.
AuthStateChange ==
  /\ InFlight + 2 <= MaxInFlight
  /\ loads' = Append(loads, LoadQuestsCall(skillsShown))
  /\ reloads' = reloads + 1
  /\ UNCHANGED <<skillRows, questRows, skillsShown, questsShown, updates>>
  /\ QuestFrame

\* loadUserProfile / loadSkills: the select settles, setSkills renders Index.
loadSkills ==
  /\ reloads > 0
  /\ reloads' = reloads - 1
  /\ skillsShown' = skillRows
  /\ loads' = Append(loads, LoadQuestsCall(skillRows))
  /\ UNCHANGED <<skillRows, questRows, questsShown, updates>>
  /\ QuestFrame

\* loadQuests after its select: an error is reported, no rows call
\* generateQuests up to its insert, rows are shown.
loadQuests ==
  \E i \in 1..Len(loads) :
    /\ loads[i].phase = "select"
    /\ \E ok \in BOOLEAN :
         LET data == SelectQuests(questRows, 1, loads[i].lockedSkills) IN
         IF ~ok
         THEN loads' = Without(loads, i) /\ UNCHANGED questsShown
         ELSE IF data = <<>>
         THEN /\ \E numQuests \in [loads[i].lockedSkills -> MinQuests..MaxQuests] :
                   loads' = [loads EXCEPT
                     ![i].phase = "insert",
                     ![i].newQuests = NewQuests(loads[i].lockedSkills, numQuests)]
              /\ UNCHANGED questsShown
         ELSE loads' = Without(loads, i) /\ questsShown' = data
    /\ UNCHANGED <<skillRows, questRows, skillsShown, reloads, updates>>
    /\ QuestFrame

\* generateQuests after its insert.
generateQuests ==
  \E i \in 1..Len(loads) :
    /\ loads[i].phase = "insert"
    /\ \E ok \in BOOLEAN :
         IF ok
         THEN /\ questRows' = questRows \o loads[i].newQuests
              /\ questsShown' = Inserted(questRows, loads[i].newQuests)
         ELSE UNCHANGED <<questRows, questsShown>>
    /\ loads' = Without(loads, i)
    /\ UNCHANGED <<skillRows, skillsShown, reloads, updates>>
    /\ QuestFrame

\* completeQuest up to its update: the button of a quest not yet completed.
completeQuest ==
  \E q \in 1..Len(questsShown) :
    /\ ~questsShown[q].is_completed
    /\ InFlight < MaxInFlight
    /\ updates' = Append(updates, [op |-> "completeQuest",
                                   id |-> questsShown[q].id])
    /\ UNCHANGED <<skillRows, questRows, skillsShown, questsShown, loads,
                   reloads>>
    /\ QuestFrame

\* completeQuest after its update: the row is completed, the shown quest
\* too, and onQuestComplete (loadUserProfile) is called.
completeQuestSettled ==
  \E i \in 1..Len(updates) :
    /\ updates[i].op = "completeQuest"
    /\ \E ok \in BOOLEAN :
         IF ok
         THEN /\ questRows' = [questRows EXCEPT
                                 ![updates[i].id].is_completed = TRUE]
              /\ questsShown' =
                   [q \in 1..Len(questsShown) |->
                      IF questsShown[q].id = updates[i].id
                      THEN [questsShown[q] EXCEPT !.is_completed = TRUE]
                      ELSE questsShown[q]]
              /\ reloads' = reloads + 1
         ELSE UNCHANGED <<questRows, questsShown, reloads>>
    /\ updates' = Without(updates, i)
    /\ UNCHANGED <<skillRows, skillsShown, loads>>
    /\ QuestFrame

\* handleConfirmSkill up to its update.
handleConfirmSkill ==
  \E skillId \in SkillIds :
    /\ InFlight < MaxInFlight
    /\ updates' = Append(updates,
         [op |-> "confirm", id |-> skillId,
          unlock |-> skillsShown[skillId].confidence_score >= HalfScore,
          skills |-> skillsShown])
    /\ UNCHANGED <<skillRows, questRows, skillsShown, questsShown, loads,
                   reloads>>
    /\ QuestFrame

\* handleConfirmSkill after its update: setSkills(skills.map(...)) renders
\* Index.
handleConfirmSkillSettled ==
  \E i \in 1..Len(updates) :
    /\ updates[i].op = "confirm"
    /\ \E ok \in BOOLEAN :
         LET u == updates[i]
             confirmed(rows) ==
               IF u.unlock THEN [rows EXCEPT ![u.id].state = "unlocked"]
               ELSE rows
         IN IF ok
            THEN /\ skillRows' = confirmed(skillRows)
                 /\ skillsShown' = confirmed(u.skills)
                 /\ loads' = Append(loads, LoadQuestsCall(confirmed(u.skills)))
            ELSE UNCHANGED <<skillRows, skillsShown, loads>>
    /\ updates' = Without(updates, i)
    /\ UNCHANGED <<questRows, questsShown, reloads>>
    /\ QuestFrame

QuestNext ==
  \/ AuthStateChange \/ loadSkills \/ loadQuests \/ generateQuests
  \/ completeQuest \/ completeQuestSettled
  \/ handleConfirmSkill \/ handleConfirmSkillSettled

QuestSpec == QuestInit /\ [][QuestNext]_vars

\* Every call to the store settles; what the user does is up to the user.
QuestFairness ==
  /\ WF_vars(loadSkills) /\ WF_vars(loadQuests) /\ WF_vars(generateQuests)
  /\ WF_vars(completeQuestSettled) /\ WF_vars(handleConfirmSkillSettled)

QuestLiveSpec == QuestSpec /\ QuestFairness

\* ------------------------------------------------------- specifications
Next ==
  \/ SetFile \/ SetTextInput \/ SetGithubUsername \/ SetGithubToken
  \/ SetAutoMerge
  \/ SmartRejectNoInput \/ SmartStart
  \/ SmartDocumentParsed \/ SmartDocumentSettled \/ SmartGitHubSettled
  \/ SmartTextSettled \/ SmartAfterAll \/ SmartInsertSettled
  \/ LoadUserProfile \/ SetPendingFile \/ SetPendingText \/ SetPendingGithub
  \/ IndexRejectNoInput \/ IndexStart
  \/ IndexDocumentParsed \/ IndexDocumentSettled \/ IndexGitHubSettled
  \/ IndexTextSettled \/ IndexInsertSettled \/ IndexSkillsLoaded

Spec == Init /\ [][Next]_vars

\* Every adapter call (parse, invoke) and every insert settles: a step of
\* the run that is possible is taken.
RunStep ==
  \/ SmartDocumentParsed \/ SmartDocumentSettled \/ SmartGitHubSettled
  \/ SmartTextSettled \/ SmartInsertSettled
  \/ IndexDocumentParsed \/ IndexDocumentSettled \/ IndexGitHubSettled
  \/ IndexTextSettled \/ IndexInsertSettled

\* await Promise.all(extractionPromises) resumes once every task has
\* settled: the step of SmartAfterAll, told by its guard and by the pc it
\* leaves.
SmartResumes ==
  /\ component = "Smart" /\ pc = "awaitAll" /\ AllSettled(task)
  /\ pc' \in {"inserting", "done"}

CallsSettle == WF_vars(RunStep) /\ WF_pc(SmartResumes)

\* The select of loadSkills, awaited by Index after a successful insert,
\* settles.
ReloadSettles == WF_vars(IndexSkillsLoaded)

LiveSpec == Spec /\ CallsSettle

\* ================================================================= claims
\* Vocabulary of the claims, defined without the operators of the merge.

\* A name with letter case and surrounding blanks removed.
CanonName(s) ==
  LET idx == {i \in 1..Len(s) : s[i] # SPACE} IN
  IF idx = {} THEN <<>>
  ELSE LET lo == CHOOSE i \in idx : \A k \in idx : i <= k
           hi == CHOOSE i \in idx : \A k \in idx : k <= i
       IN [k \in 1..(hi - lo + 1) |-> ToLowerChar(s[lo + k - 1])]

\* The candidates of `list` whose name is `cn` up to case and surrounding
\* blanks, in list order: the contributors of one merged entry.
Contributors(list, cn) ==
  LET RECURSIVE F(_)
      F(xs) ==
        IF xs = <<>> THEN <<>>
        ELSE IF CanonName(Head(xs).skill_name) = cn
             THEN <<Head(xs)>> \o F(Tail(xs))
             ELSE F(Tail(xs))
  IN F(list)

ContributorsOf(entry) == Contributors(fnInput, CanonName(entry.skill_name))

RECURSIVE Pow2(_)
Pow2(n) == IF n <= 0 THEN 1 ELSE 2 * Pow2(n - 1)

RECURSIVE SumConfidence(_)
SumConfidence(cs) ==
  IF cs = <<>> THEN 0
  ELSE Head(cs).confidence_score + SumConfidence(Tail(cs))

\* c1 + sum over i >= 2 of c_i * 2^(i-2): the running average times 2^(k-1).
RECURSIVE WeightedConfidence(_)
WeightedConfidence(cs) ==
  IF Len(cs) = 1 THEN cs[1].confidence_score
  ELSE WeightedConfidence(SubSeq(cs, 1, Len(cs) - 1))
       + cs[Len(cs)].confidence_score * Pow2(Len(cs) - 2)

Elems(xs) == {xs[i] : i \in 1..Len(xs)}
NoDuplicates(xs) == \A i, k \in 1..Len(xs) : xs[i] = xs[k] => i = k

\* The distinct source labels of cs in order of first contribution, joined
\* by ", ".
JoinedLabels(cs) ==
  LET RECURSIVE J(_, _)
      J(xs, seen) ==
        IF xs = <<>> THEN <<>>
        ELSE IF Head(xs).source \in seen THEN J(Tail(xs), seen)
        ELSE (IF seen = {} THEN <<>> ELSE <<",", " ">>)
             \o Head(xs).source \o J(Tail(xs), seen \cup {Head(xs).source})
  IN J(cs, {})

\* C1: the merge output holds exactly one entry per lower-cased, trimmed
\* name of its input: candidates whose names differ only by case or by
\* surrounding whitespace end up in one Merged Skill.
MergeOneEntryPerKey ==
  fnDone =>
    /\ \A i \in 1..Len(fnInput) :
         Cardinality({j \in 1..Len(fnOutput) :
            CanonName(fnOutput[j].skill_name)
              = CanonName(fnInput[i].skill_name)}) = 1
    /\ \A j \in 1..Len(fnOutput) : ContributorsOf(fnOutput[j]) # <<>>

\* Two differently spelled candidates of one key were merged into one entry.
MergeOneEntryPerKeyWitness ==
  /\ fnDone
  /\ Len(fnOutput) = 1
  /\ \E i, k \in 1..Len(fnInput) :
       /\ fnInput[i].skill_name = NamePy
       /\ fnInput[k].skill_name = NamePyPad

\* C5: a merged confidence is the sequential pairwise running average in
\* input order, r_1 = c1, r_i = (r_(i-1) + c_i) / 2; in closed form
\* r_k * 2^(k-1) = c1 + sum_(i >= 2) c_i * 2^(i-2).
MergedConfidenceIsRunningAverage ==
  fnDone =>
    \A j \in 1..Len(fnOutput) :
      LET cs == ContributorsOf(fnOutput[j]) IN
      /\ cs # <<>>
      /\ fnOutput[j].confidence_score * Pow2(Len(cs) - 1)
           = WeightedConfidence(cs)

\* Three candidates on one key whose running average is not their mean.
RunningAverageDiffersFromMean ==
  /\ fnDone
  /\ \E j \in 1..Len(fnOutput) :
       LET cs == ContributorsOf(fnOutput[j]) IN
       /\ Len(cs) >= 3
       /\ fnOutput[j].confidence_score * Len(cs) # SumConfidence(cs)

\* C6: a merged confidence is the arithmetic mean of the confidences of all
\* contributing candidates.
MergedConfidenceIsArithmeticMean ==
  fnDone =>
    \A j \in 1..Len(fnOutput) :
      LET cs == ContributorsOf(fnOutput[j]) IN
      fnOutput[j].confidence_score * Len(cs) = SumConfidence(cs)

\* C7: a merged confidence lies between the least and the greatest of the
\* contributing confidences, hence within [0,1].
MergedConfidenceWithinContributors ==
  fnDone =>
    \A j \in 1..Len(fnOutput) :
      LET cs == ContributorsOf(fnOutput[j])
          c  == fnOutput[j].confidence_score
      IN /\ \E i \in 1..Len(cs) : cs[i].confidence_score <= c
         /\ \E i \in 1..Len(cs) : c <= cs[i].confidence_score
         /\ 0 <= c /\ c <= ConfOne

\* Unequal confidences were merged to a value strictly between them.
MergedConfidenceStrictlyBetween ==
  /\ fnDone
  /\ \E j \in 1..Len(fnOutput) :
       LET cs == ContributorsOf(fnOutput[j])
           c  == fnOutput[j].confidence_score
       IN /\ Len(cs) >= 2
          /\ \E i \in 1..Len(cs) : cs[i].confidence_score < c
          /\ \E i \in 1..Len(cs) : c < cs[i].confidence_score

\* C8 as claimed: every merged entry's evidence holds every contributing
\* evidence string and no string twice, entries of a single candidate too.
EvidenceIsDuplicateFreeUnion ==
  fnDone =>
    \A j \in 1..Len(fnOutput) :
      LET cs == ContributorsOf(fnOutput[j]) IN
      /\ \A i \in 1..Len(cs) :
           Elems(cs[i].evidence) \subseteq Elems(fnOutput[j].evidence)
      /\ NoDuplicates(fnOutput[j].evidence)

\* C8 as amended: the evidence holds exactly the contributing strings; it
\* holds none twice when two or more candidates contributed, and is the one
\* candidate's list verbatim when a single candidate contributed.
EvidenceUnionDedupedOnMerge ==
  fnDone =>
    \A j \in 1..Len(fnOutput) :
      LET cs == ContributorsOf(fnOutput[j]) IN
      /\ Elems(fnOutput[j].evidence)
           = UNION {Elems(cs[i].evidence) : i \in 1..Len(cs)}
      /\ Len(cs) >= 2 => NoDuplicates(fnOutput[j].evidence)
      /\ Len(cs) = 1 => fnOutput[j].evidence = cs[1].evidence

\* A first candidate repeating a string was merged with another candidate.
EvidenceDedupedWitness ==
  /\ fnDone
  /\ \E j \in 1..Len(fnOutput) :
       LET cs == ContributorsOf(fnOutput[j]) IN
       /\ Len(cs) >= 2
       /\ ~NoDuplicates(cs[1].evidence)
       /\ Elems(cs[2].evidence) # Elems(cs[1].evidence)
       /\ NoDuplicates(fnOutput[j].evidence)

\* C9: name, kind, cluster, narrative and unlock state of a merged entry are
\* those of the first candidate of its key, whatever merged later.
FirstWriterWins ==
  fnDone =>
    \A j \in 1..Len(fnOutput) :
      LET cs == ContributorsOf(fnOutput[j]) IN
      /\ cs # <<>>
      /\ fnOutput[j].skill_name = cs[1].skill_name
      /\ fnOutput[j].skill_type = cs[1].skill_type
      /\ fnOutput[j].cluster = cs[1].cluster
      /\ fnOutput[j].microstory = cs[1].microstory
      /\ fnOutput[j].state = cs[1].state

\* A later candidate differing in every scalar field changed the confidence.
FirstWriterWinsWitness ==
  /\ fnDone
  /\ \E j \in 1..Len(fnOutput) :
       LET cs == ContributorsOf(fnOutput[j]) IN
       /\ Len(cs) >= 2
       /\ cs[2].skill_name # cs[1].skill_name
       /\ cs[2].skill_type # cs[1].skill_type
       /\ cs[2].cluster # cs[1].cluster
       /\ cs[2].microstory # cs[1].microstory
       /\ cs[2].state # cs[1].state
       /\ fnOutput[j].confidence_score # cs[1].confidence_score

\* C10: the source label of a merged entry is the distinct labels of its
\* contributors, each once, in order of first contribution, joined by ", ".
SourceLabelListsContributors ==
  fnDone =>
    \A j \in 1..Len(fnOutput) :
      fnOutput[j].source = JoinedLabels(ContributorsOf(fnOutput[j]))

\* 'Py' 0.8 from Text, then ' pY ' 0.6 from GitHub: one entry 'Py', 0.7,
\* labelled 'Text, GitHub'.
SourceLabelScenario ==
  /\ fnDone
  /\ fnInput = <<MkSkill(NamePy, ShapeA, LblText),
                 MkSkill(NamePyPad, ShapeB, LblGitHub)>>
  /\ Len(fnOutput) = 1
  /\ fnOutput[1].skill_name = NamePy
  /\ fnOutput[1].confidence_score * 10 = 7 * ConfOne
  /\ fnOutput[1].source
       = <<"T","e","x","t",",", " ","G","i","t","H","u","b">>

\* The distinct names of a candidate list up to case and surrounding blanks.
DistinctKeys(list) == {CanonName(list[i].skill_name) : i \in 1..Len(list)}

\* C11: the merge returns as many entries as its input has distinct
\* lower-cased trimmed names: none for an empty input, and between 1 and
\* len(input) for a non-empty one.
MergeCountIsDistinctKeys ==
  fnDone =>
    /\ Len(fnOutput) = Cardinality(DistinctKeys(fnInput))
    /\ fnInput = <<>> => fnOutput = <<>>
    /\ fnInput # <<>> => 1 <= Len(fnOutput) /\ Len(fnOutput) <= Len(fnInput)

\* Three candidates on two keys gave two entries.
MergeCountWitness ==
  /\ fnDone
  /\ Len(fnInput) = 3
  /\ Cardinality(DistinctKeys(fnInput)) = 2
  /\ Len(fnOutput) = 2

\* The merge of the empty list returned the empty list.
MergeOfNothingWitness == fnDone /\ fnInput = <<>> /\ fnOutput = <<>>

\* C12: a candidate whose key no other candidate of the input shares is
\* returned unchanged: name, kind, confidence, evidence, cluster, narrative,
\* unlock state and source label are that candidate's.
LoneCandidatePassesThrough ==
  fnDone =>
    \A i \in 1..Len(fnInput) :
      Len(Contributors(fnInput, CanonName(fnInput[i].skill_name))) = 1
        => \E j \in 1..Len(fnOutput) : fnOutput[j] = fnInput[i]

\* A padded name with a repeated evidence string passed through beside a
\* candidate of another key.
LoneCandidateWitness ==
  /\ fnDone
  /\ Len(fnInput) >= 2
  /\ \E i \in 1..Len(fnInput) :
       /\ fnInput[i].skill_name = NamePyPad
       /\ ~NoDuplicates(fnInput[i].evidence)
       /\ Len(Contributors(fnInput, CanonName(NamePyPad))) = 1
       /\ \E j \in 1..Len(fnOutput) : fnOutput[j] = fnInput[i]

\* ------------------------------------------------ claims about the runs
Merged == statusAtMerge # NotMerged

\* The label under which an adapter's candidates appear in the merge.
LabelOf(a) == IF component = "Smart" THEN SmartLabel(a) ELSE IndexLabel(a)

\* C2: when one adapter fails and another succeeds, each successful source
\* shows completed, each failed source shows error, and the merged output
\* holds exactly the candidates of the successful adapters.
FailedSourceIsolated ==
  (/\ Merged
   /\ \E a \in Adapters : outcome[a] = "failed"
   /\ \E a \in Adapters : outcome[a] = "ok")
  =>
   /\ \A a \in Adapters : outcome[a] = "ok" => statusAtMerge[a] = "completed"
   /\ \A a \in Adapters : outcome[a] = "failed" => statusAtMerge[a] = "error"
   /\ {CanonName(mergedSkills[j].skill_name) : j \in 1..Len(mergedSkills)}
        = UNION {{CanonName(results[a][i].skill_name) : i \in 1..Len(results[a])}
                 : a \in {b \in Adapters : outcome[b] = "ok"}}
   /\ \A j \in 1..Len(mergedSkills) : \A a \in Adapters :
        outcome[a] = "failed" => ~includes(mergedSkills[j].source, LabelOf(a))

\* C2 for SmartAggregateExtract alone.
FailedSourceIsolatedInSmart == component = "Smart" => FailedSourceIsolated

\* C3: when the merge begins, no present source is still pending or
\* processing.
MergeStartsWithTerminalStatuses ==
  Merged =>
    \A a \in Adapters : statusAtMerge[a] \in {"absent", "completed", "error"}

\* The barrier on the adapter tasks themselves: merged or inserted only
\* after every launched task has settled.
MergeAfterAllTasksSettled ==
  (Merged \/ inserts # <<>>) => AllSettled(task)

\* A text made of blanks only (the empty text included).
AllBlank(t) == \A i \in 1..Len(t) : t[i] = SPACE

NoSourcePresent ==
  /\ component = "Smart" =>
       file = Null /\ AllBlank(textInput) /\ AllBlank(githubUsername)
  /\ component = "Index" =>
       pendingFile = Null /\ AllBlank(pendingText)
       /\ AllBlank(pendingGithub.username)

UserInputs4 == <<file, textInput, githubUsername, githubToken, autoMerge,
                 profileId, pendingFile, pendingText, pendingGithub>>

\* C4: with no source present (no file, blank text, blank username) a click
\* is rejected with an error notification before anything is invoked: no
\* adapter call, no insert, and the extracting flag, the progress and the
\* status list stay as they were.
NoInputIsRejectedUntouched ==
  [][(NoSourcePresent /\ pc = "idle" /\ UserInputs4' = UserInputs4)
     => /\ pc' = "idle"
        /\ task' = task /\ request' = request /\ results' = results
        /\ inserts' = inserts /\ saved' = saved
        /\ isExtracting' = isExtracting /\ progress' = progress
        /\ sources' = sources
        /\ processing' = processing
        /\ aggregateProgress' = aggregateProgress
        /\ Len(toasts') = Len(toasts) + 1
        /\ toasts'[Len(toasts')].level = "error"]_vars

\* A click with whitespace-only text and username was rejected.
NoInputRejectedWitness ==
  /\ component = "Smart"
  /\ rejects = 1 /\ pc = "idle"
  /\ textInput = Blank /\ githubUsername = Blank /\ file = Null
  /\ Len(toasts) = 1 /\ toasts[1].level = "error"
  /\ ~isExtracting /\ sources = <<>> /\ inserts = <<>>

\* Whether a batch holds at most one record per case-folded, trimmed name.
OneRecordPerKey(batch) ==
  \A i, k \in 1..Len(batch) :
    CanonName(batch[i].skill_name) = CanonName(batch[k].skill_name) => i = k

\* C13: every batch handed to the insert holds at most one record per
\* case-folded, trimmed skill name, whatever the user's settings.
InsertBatchOneRecordPerKey ==
  \A b \in 1..Len(inserts) : OneRecordPerKey(inserts[b])

\* The same with the merge applied: Index, or Smart with Auto Merge on.
InsertBatchOneRecordPerKeyWhenMerging ==
  (component = "Smart" => autoMerge) => InsertBatchOneRecordPerKey

\* The status a source shows to the user, and whether the source is provided.
StatusOf(a) ==
  IF component = "Smart" THEN SmartStatus(sources, a)
  ELSE IndexStatus(aggregateProgress, a)

Present(a) == IF component = "Smart" THEN SmartPresent(a) ELSE IndexPresent(a)

\* One step of one source's status: unchanged; a provided source leaves
\* "no entry" for processing (through pending, in the same update batch);
\* processing ends in completed or error; Index clears its display in the
\* finally block that ends the run.
StatusStepAllowed(a) ==
  \/ StatusOf(a)' = StatusOf(a)
  \/ Present(a) /\ StatusOf(a) = "absent" /\ StatusOf(a)' = "processing"
  \/ StatusOf(a) = "processing" /\ StatusOf(a)' \in {"completed", "error"}
  \/ component = "Index" /\ pc' = "done" /\ StatusOf(a)' = "absent"

\* When the extraction phase of a run is over, every provided source shows
\* completed or error and every other source shows nothing.
StatusesSettledAfterExtraction ==
  (~Merged /\ Merged') =>
    \A a \in Adapters :
      IF Present(a) THEN statusAtMerge'[a] \in {"completed", "error"}
      ELSE statusAtMerge'[a] = "absent"

\* C14: within a run each present source's status moves only along
\* pending -> processing -> completed or pending -> processing -> error,
\* reaches completed or error before the run ends, never leaves a terminal
\* status during the run, and an absent source never gets an entry.
StatusFollowsLifecycle ==
  [][(\A a \in Adapters : StatusStepAllowed(a))
     /\ StatusesSettledAfterExtraction]_vars

\* C14 for SmartAggregateExtract alone.
StatusFollowsLifecycleInSmart ==
  [][component = "Smart" =>
       /\ \A a \in Adapters : StatusStepAllowed(a)
       /\ StatusesSettledAfterExtraction]_vars

\* The steps of the lifecycle taken one by one, in both handlers.
StatusStepsAllowed == [][\A a \in Adapters : StatusStepAllowed(a)]_vars

\* C15: in the status list an error entry has count 0 and only error
\* entries carry an error detail; a completed entry's count is the number of
\* candidates its adapter returned in this run; pending and processing
\* entries have count 0.
StatusEntryCountsAndErrors ==
  /\ \A i \in 1..Len(sources) :
       LET s == sources[i] IN
       /\ s.status = "error" => s.skillsCount = 0
       /\ s.status # "error" => s.error = NoError
       /\ s.status = "completed" => s.skillsCount = Len(results[s.name])
       /\ s.status \in {"pending", "processing"} => s.skillsCount = 0
  /\ \A a \in Adapters :
       IF IndexStatus(aggregateProgress, a) = "completed"
       THEN aggregateProgress[a].count = Len(results[a])
       ELSE aggregateProgress[a].count = 0

\* One source completed with a candidate beside one that failed with a detail.
StatusEntryWitness ==
  /\ \E i \in 1..Len(sources) :
       /\ sources[i].status = "completed"
       /\ sources[i].skillsCount = 1
       /\ Len(results[sources[i].name]) = 1
  /\ \E i \in 1..Len(sources) :
       /\ sources[i].status = "error"
       /\ sources[i].error # NoError

\* The handler is suspended on adapter results.
AwaitingAdapters == pc \in {"awaitAll", "extracting"}

\* An adapter has been started: its parse or request is issued or answered.
Started(a) == task[a] # "absent"

\* C16: every present adapter has been started, its status processing or
\* beyond, before the orchestrator waits for any adapter's result.
AllAdaptersLaunchedBeforeWaiting ==
  AwaitingAdapters =>
    \A a \in Adapters : Present(a) => Started(a) /\ StatusOf(a) # "absent"

\* C16 for SmartAggregateExtract alone.
AllAdaptersLaunchedInSmart ==
  component = "Smart" => AllAdaptersLaunchedBeforeWaiting

\* What Index does: one adapter in flight at a time, in the order Document,
\* GitHub, Text, each started only when those before it have settled.
IndexRunsAdaptersInSequence ==
  (component = "Index" /\ pc = "extracting") =>
    \E i \in 1..3 :
      /\ task[AdapterOrder[i]] \in {"parsing", "invoking"}
      /\ \A k \in 1..3 :
           /\ k < i => task[AdapterOrder[k]] \in {"absent", "settled"}
           /\ k > i => task[AdapterOrder[k]] = "absent"

\* The entry a source has in the status list (status, count, error detail).
EntryOf(a) ==
  IF component = "Smart"
  THEN IF \E i \in 1..Len(sources) : sources[i].name = a
       THEN sources[CHOOSE i \in 1..Len(sources) : sources[i].name = a]
       ELSE Source(a, "absent", 0, NoError)
  ELSE aggregateProgress[a]

\* The orchestrator itself rewrites the whole list: when a run starts, and in
\* Index when the finally block clears the display.
ListRewritten == pc = "idle" \/ (component = "Index" /\ pc' = "done")

\* Every entry shows the last update issued for its source.
EntriesShowLastUpdate ==
  (pc \in {"awaitAll", "extracting", "inserting", "loading"}
   \/ (component = "Smart" /\ pc = "done")) =>
    \A a \in Adapters :
      /\ task[a] = "absent" => StatusOf(a) = "absent"
      /\ task[a] \in {"parsing", "invoking"} => StatusOf(a) = "processing"
      /\ (task[a] = "settled" /\ outcome[a] = "ok") =>
           /\ StatusOf(a) = "completed"
           /\ (component = "Smart" =>
                 EntryOf(a).skillsCount = Len(results[a]))
           /\ (component = "Index" => EntryOf(a).count = Len(results[a]))
      /\ (task[a] = "settled" /\ outcome[a] = "failed") =>
           StatusOf(a) \in (IF component = "Smart" THEN {"error"}
                            ELSE {"error", "processing"})

\* C17: in every interleaving an adapter's status update changes the entry
\* of its own source only, and none is lost: each entry shows the last
\* update issued for its source.
StatusUpdatesAreIsolated ==
  [][/\ \A b \in Adapters :
          EntryOf(b)' # EntryOf(b) => (task'[b] # task[b] \/ ListRewritten)
     /\ EntriesShowLastUpdate']_vars

\* Three adapters ran side by side: the document completed with one
\* candidate, GitHub and the text failed, and each entry shows it.
StatusUpdatesWitness ==
  /\ component = "Smart" /\ pc = "awaitAll" /\ AllSettled(task)
  /\ EntryOf("Document").status = "completed"
  /\ EntryOf("Document").skillsCount = 1
  /\ EntryOf("GitHub").status = "error"
  /\ EntryOf("Text").status = "error"

\* No adapter is at work: none is parsing or waiting for its edge function.
NoAdapterAtWork == \A a \in Adapters : task[a] \notin {"parsing", "invoking"}

\* C18: the batch insert is issued at most once in a run, after the merge
\* step has produced the batch, and never while an adapter is still at work.
InsertOnceAfterMerge ==
  /\ Len(inserts) <= 1
  /\ inserts # <<>> =>
       /\ Merged
       /\ NoAdapterAtWork
       /\ Len(inserts[1]) = Len(mergedSkills)
       /\ Len(mergedSkills) > 0
  /\ pc \in {"inserting", "loading"} => Len(inserts) = 1
  /\ saved # <<>> => inserts # <<>>

\* The insert of one record merged from the candidates of two adapters is
\* pending.
InsertOnceWitness ==
  /\ pc = "inserting"
  /\ Len(inserts) = 1 /\ Len(inserts[1]) = 1
  /\ Cardinality({a \in Adapters : Len(results[a]) = 1}) = 2
  /\ NoAdapterAtWork

\* C19: when the batch insert fails the run ends as a failure of the whole
\* operation: an error notification and no success notification, no call of
\* the completion callback, and the user's inputs are left as they were.
InsertFailureFailsRun ==
  [][(pc = "inserting" /\ saved' = saved) =>
        /\ pc' = "done"
        /\ Len(toasts') = Len(toasts) + 1
        /\ toasts'[Len(toasts')].level = "error"
        /\ \A i \in 1..Len(toasts') : toasts'[i].level # "success"
        /\ completions' = completions
        /\ UserInputs4' = UserInputs4]_vars

\* A run with a file and a text extracted a skill, the insert failed, and
\* the file and the text are still in place.
InsertFailureWitness ==
  /\ component = "Smart" /\ pc = "done"
  /\ Len(inserts) = 1 /\ inserts[1] # <<>> /\ saved = <<>>
  /\ toasts # <<>> /\ toasts[Len(toasts)].level = "error"
  /\ completions = 0
  /\ file # Null /\ textInput = TextCV
  /\ ~isExtracting

\* The sources that completed in this run, in list order, each with the
\* number of candidates it produced.
CompletedThisRun ==
  LET names == SelectPresent(AdapterOrder,
                             {a \in Adapters : outcome[a] = "ok"})
  IN [i \in 1..Len(names) |->
        [name |-> names[i], count |-> Len(results[names[i]])]]

\* C20: the summary of a saved run states the number of merged skills and,
\* for each source that completed in this run, its name with the number of
\* candidates it produced.
SummaryListsCompletedSources ==
  \A i \in 1..Len(toasts) :
    toasts[i].level = "success" =>
      /\ toasts[i].total = Len(mergedSkills)
      /\ toasts[i].summary = CompletedThisRun

\* The total alone: a success notification states the merged count, and is
\* raised only once rows are saved.
SummaryTotalIsMergedCount ==
  \A i \in 1..Len(toasts) :
    toasts[i].level = "success" =>
      /\ toasts[i].total = Len(mergedSkills)
      /\ saved # <<>>

\* How a finished run went.
RunEnded == pc = "done"
ExtractedNotSaved == RunEnded /\ mergedSkills # <<>> /\ saved = <<>>
NothingExtracted == RunEnded /\ mergedSkills = <<>>
PartialSuccess ==
  /\ RunEnded /\ saved # <<>>
  /\ \E a \in Adapters : outcome[a] = "failed"

\* The notification that closed the run.
LastToast == toasts[Len(toasts)]

\* C21: the notification closing a run tells apart "extracted but the insert
\* failed" (an error), "nothing extracted, no insert attempted" (an
\* information) and "some sources failed, the others' skills were saved" (a
\* success): no two of the three cases end in the same notification.
OutcomesAreDistinguished ==
  RunEnded =>
    /\ toasts # <<>>
    /\ ExtractedNotSaved =>
         /\ LastToast.level = "error"
         /\ LastToast.text = "Failed to complete aggregate extraction"
         /\ Len(inserts) = 1
    /\ NothingExtracted =>
         /\ LastToast.level = "info"
         /\ LastToast.text = "No skills were extracted from the provided sources"
         /\ inserts = <<>>
    /\ PartialSuccess =>
         /\ LastToast.level = "success"
         /\ LastToast.total = Len(saved)

\* Each of the three cases is the end of some run.
ExtractedNotSavedWitness ==
  ExtractedNotSaved /\ LastToast.level = "error"

NothingExtractedWitness ==
  /\ NothingExtracted /\ LastToast.level = "info"
  /\ \E a \in Adapters : outcome[a] = "failed"

PartialSuccessWitness ==
  /\ PartialSuccess /\ LastToast.level = "success"
  /\ \E a \in Adapters : outcome[a] = "ok" /\ results[a] # <<>>

\* ------------------------------------- claims about the edge functions
\* The oracle's answer cannot be parsed into a skill list: its text is no
\* JSON, or it is an object without an array of skills.
MalformedAnswer ==
  /\ edgeStep \in {"answered", "returned", "settled"}
  /\ oracleAnswer.kind \in {"tool", "content"}
  /\ \/ IsGarbage(oracleAnswer.text)
     \/ /\ ~IsGarbage(oracleAnswer.text)
        /\ IsObj(oracleAnswer.text.value)
        /\ ~IsArr(oracleAnswer.text.value.obj)

UnparsableAnswer ==
  /\ edgeStep \in {"answered", "returned", "settled"}
  /\ oracleAnswer.kind \in {"tool", "content"}
  /\ IsGarbage(oracleAnswer.text)

\* C22: when the oracle's answer for a source is malformed, that source
\* ends in status error with a message, not in status completed with zero
\* skills.
MalformedAnswerIsAnError ==
  (edgeFn = "extract-skills" /\ edgeStep = "settled" /\ MalformedAnswer) =>
    /\ edgeStatus[1].status = "error"
    /\ edgeStatus[1].error # NoError

\* What extract-skills does with a text that is no JSON: the source ends
\* completed with zero skills.
UnparsableAnswerCompletesEmpty ==
  (edgeFn = "extract-skills" /\ edgeStep = "settled" /\ UnparsableAnswer) =>
    /\ edgeStatus[1].status = "completed"
    /\ edgeStatus[1].skillsCount = 0

\* github-skill-extract does end in error on a text that is no JSON.
UnparsableGithubAnswerIsAnError ==
  (edgeFn = "github-skill-extract" /\ edgeStep = "settled"
   /\ UnparsableAnswer)
    => edgeStatus[1].status = "error"

\* The function answered with skills normalized from a list of oracle records.
ReturnedFromList ==
  /\ edgeStep \in {"returned", "settled"}
  /\ edgeResponse.kind = "ok"
  /\ oracleAnswer.kind \in {"tool", "content"}
  /\ ~IsGarbage(oracleAnswer.text)
  /\ IsObj(oracleAnswer.text.value)
  /\ IsArr(oracleAnswer.text.value.obj)
  /\ (oracleAnswer.kind = "tool" \/ edgeFn = "github-skill-extract") =>
       ~oracleAnswer.text.fenced /\ ~oracleAnswer.text.prose

OracleList == oracleAnswer.text.value.obj.arr

\* The name the oracle gave a record, and whether any is left after trimming.
RawNameOf(s) == IF IsUndef(s.skill_name) THEN s.name ELSE s.skill_name
HasName(s) == IsStr(RawNameOf(s)) /\ ~AllBlank(RawNameOf(s).str)

\* The oracle records the returned skills stem from, in order: all of them
\* for github-skill-extract, the named ones for extract-skills.
RECURSIVE NamedOnly(_)
NamedOnly(xs) ==
  IF xs = <<>> THEN <<>>
  ELSE IF HasName(Head(xs)) THEN <<Head(xs)>> \o NamedOnly(Tail(xs))
       ELSE NamedOnly(Tail(xs))

OriginsOfReturned ==
  IF edgeFn = "extract-skills" THEN NamedOnly(OracleList) ELSE OracleList

\* locked exactly when the returned confidence is a number below 0.5.
StateForConfidence(c) ==
  IF IsNum(c) /\ 2 * c.num < ConfOne THEN StrLocked ELSE StrUnlocked

StateFollowsConfidence ==
  ReturnedFromList =>
    /\ Len(edgeResponse.skills) = Len(OriginsOfReturned)
    /\ \A i \in 1..Len(edgeResponse.skills) :
         IsUndef(OriginsOfReturned[i].state) =>
           edgeResponse.skills[i].state
             = JsStr(StateForConfidence(edgeResponse.skills[i].confidence_score))

\* C23: a candidate whose unlock state the oracle did not supply is returned
\* locked exactly when its returned confidence is below 0.5 and unlocked
\* otherwise, by extract-skills and by github-skill-extract, also when the
\* oracle omits or zeroes the confidence.
UnsuppliedStateFollowsConfidence == StateFollowsConfidence

\* C23 for extract-skills alone.
UnsuppliedStateFollowsConfidenceInExtract ==
  edgeFn = "extract-skills" => StateFollowsConfidence

\* ---- C30: what extract-skills returns
ExtractReturned == edgeFn = "extract-skills" /\ ReturnedFromList

\* The confidence the oracle gave a record, under either of its two names.
RawConfidenceOf(s) ==
  IF IsUndef(s.confidence_score) THEN s.confidence ELSE s.confidence_score

IsNumeral(t) == t # <<>> /\ \A i \in 1..Len(t) : IsDigit(t[i])

\* A confidence that is no number: omitted, or a string that spells none.
NonNumeric(c) == IsUndef(c) \/ (IsStr(c) /\ ~IsNumeral(trim(c.str)))

NameIsTrimmed(r) ==
  r.skill_name # <<>> /\ trim(r.skill_name) = r.skill_name

KindIsKnown(r) == r.skill_type \in {StrExplicit, StrImplicit}

ConfidenceInRange(r) ==
  /\ IsNum(r.confidence_score)
  /\ r.confidence_score.num >= 0
  /\ r.confidence_score.num <= ConfOne

EvidenceIsShort(r) ==
  /\ Len(r.evidence) <= ExtractEvidenceLimit
  /\ \A j \in 1..Len(r.evidence) : ~AllBlank(r.evidence[j])

StateIsKnown(r) == r.state \in {JsStr(StrLocked), JsStr(StrUnlocked)}

\* C30: every skill extract-skills returns has a non-empty trimmed name, kind
\* explicit or implicit, a confidence within [0,1] that is 0.8 when the oracle
\* gave no number, at most three evidence strings none of them blank, and
\* state locked or unlocked; records without a name are dropped.
ReturnedSkillsAreNormalized ==
  ExtractReturned =>
    /\ Len(edgeResponse.skills) = Len(NamedOnly(OracleList))
    /\ \A i \in 1..Len(edgeResponse.skills) :
         LET r == edgeResponse.skills[i]
             s == NamedOnly(OracleList)[i]
         IN /\ NameIsTrimmed(r)
            /\ KindIsKnown(r)
            /\ ConfidenceInRange(r)
            /\ NonNumeric(RawConfidenceOf(s))
                 => r.confidence_score = JsNum(DefaultScore)
            /\ EvidenceIsShort(r)
            /\ StateIsKnown(r)

\* C30 without the state, and with the default confidence only for an omitted
\* confidence or a string that is neither blank nor a numeral.
ReturnedSkillsAreNormalizedButState ==
  ExtractReturned =>
    /\ Len(edgeResponse.skills) = Len(NamedOnly(OracleList))
    /\ \A i \in 1..Len(edgeResponse.skills) :
         LET r == edgeResponse.skills[i]
             s == NamedOnly(OracleList)[i]
             c == RawConfidenceOf(s)
         IN /\ NameIsTrimmed(r)
            /\ KindIsKnown(r)
            /\ ConfidenceInRange(r)
            /\ (NonNumeric(c) /\ ~(IsStr(c) /\ AllBlank(c.str)))
                 => r.confidence_score = JsNum(DefaultScore)
            /\ EvidenceIsShort(r)

\* C30 as to the state alone.
ReturnedStateIsKnown ==
  ExtractReturned =>
    \A i \in 1..Len(edgeResponse.skills) : StateIsKnown(edgeResponse.skills[i])

\* C30 as to the confidence of a record whose confidence is a blank string.
BlankConfidenceBecomesDefault ==
  ExtractReturned =>
    \A i \in 1..Len(edgeResponse.skills) :
      LET c == RawConfidenceOf(NamedOnly(OracleList)[i]) IN
      (IsStr(c) /\ AllBlank(c.str))
        => edgeResponse.skills[i].confidence_score = JsNum(DefaultScore)

\* ---- C28: quests per locked skill
QuestsOf(id) == {q \in 1..Len(questRows) : questRows[q].skill_id = id}

\* C28: whatever the interleaving of loadQuests invocations, the store never
\* holds more than one generated batch of 2 to 3 quests for a skill.
QuestsGeneratedOncePerSkill ==
  \A id \in SkillIds : Cardinality(QuestsOf(id)) <= MaxQuests

\* A skill has no quests or at least one whole batch of them.
QuestsComeInBatches ==
  \A id \in SkillIds :
    QuestsOf(id) = {} \/ Cardinality(QuestsOf(id)) >= MinQuests

\* ---- C24: completing quests and unlocking
AllQuestsCompleted(id) ==
  /\ skillRows[id].state = "locked"
  /\ QuestsOf(id) # {}
  /\ \A q \in QuestsOf(id) : questRows[q].is_completed

SkillUnlocked(id) ==
  skillRows[id].state = "unlocked" /\ skillsShown[id].state = "unlocked"

\* C24: once every quest of a locked skill is completed, the skill eventually
\* is unlocked, in the store and in the skill list shown.
CompletedQuestsUnlockSkill ==
  \A id \in SkillIds : AllQuestsCompleted(id) ~> SkillUnlocked(id)

\* All quests of a locked skill do get completed.
AllQuestsCompletedWitness ==
  \E id \in SkillIds : AllQuestsCompleted(id) /\ InFlight = 0

\* No step completing a quest changes a row of table skills.
CompleteQuestLeavesSkills ==
  [][completeQuestSettled => UNCHANGED skillRows]_vars

\* A skill locked with a confidence below 0.5 stays locked, whatever is
\* completed or confirmed.
LowConfidenceSkillStaysLocked ==
  [][\A id \in SkillIds :
       (skillRows[id].state = "locked"
        /\ skillRows[id].confidence_score < HalfScore)
         => skillRows'[id].state = "locked"]_vars

\* ---- C27: the request to github-skill-extract
GithubRequested == request["GitHub"] # <<>>

\* C27: a request the aggregate flow sends to github-skill-extract carries
\* the non-blank username in the field the function requires, githubUsername,
\* so that the function does not reject it for a missing username.
GithubRequestNamesUser ==
  GithubRequested =>
    Field(request["GitHub"], "githubUsername") \notin {Undefined, NoText}

\* The username is sent, non-blank, in the field `username`.
GithubRequestCarriesUsername ==
  GithubRequested => ~AllBlank(Field(request["GitHub"], "username"))

\* The GitHub adapter of an aggregate run never succeeds and its source never
\* reaches status completed.
GithubSourceNeverCompletes ==
  outcome["GitHub"] # "ok" /\ StatusOf("GitHub") # "completed"

GithubRequestedWitness ==
  GithubRequested /\ task["GitHub"] = "settled"

\* ---- C29: termination of a run
RunStarted == pc \in {"awaitAll", "extracting", "inserting", "loading"}

\* The extracting flag is false and the progress display is reset.
RunReset ==
  IF component = "Smart" THEN ~isExtracting /\ progress = 0
  ELSE ~processing /\ aggregateProgress = NoProgress

\* C29 as stated: provided every adapter call and the insert settle, a
\* started run eventually has its extracting flag false and its progress
\* reset.
StartedRunTerminates == RunStarted ~> RunReset

\* C29, amended: provided also that the reload of the skill list that Index
\* awaits after a successful insert settles, a started run eventually has
\* its extracting flag false and its progress reset.
StartedRunTerminatesIfReloadSettles ==
  ReloadSettles => (RunStarted ~> RunReset)

\* C29 as stated, for SmartAggregateExtract.
StartedSmartRunTerminates ==
  (component = "Smart" /\ RunStarted) ~> RunReset

\* An Index run has ended, reset, after insert and reload.
TerminatedAfterReloadWitness ==
  component = "Index" /\ RunEnded /\ RunReset /\ saved # <<>>

\* A Smart run has ended, reset, after its insert failed.
TerminatedAfterInsertFailureWitness ==
  component = "Smart" /\ ExtractedNotSaved /\ RunReset

\* ---- C26: completion order and the merged list
SmartMergeDone == component = "Smart" /\ statusAtMerge # NotMerged

\* The adapters' results in the fixed source order, whoever settled first.
ResultsInSourceOrder ==
  [i \in 1..Len(AdapterOrder) |-> results[AdapterOrder[i]]]

SettledBefore(a, b) ==
  \E i, j \in 1..Len(settleOrder) :
    i < j /\ settleOrder[i] = a /\ settleOrder[j] = b

\* C26: the merged list of a SmartAggregateExtract run is the merge of the
\* adapters' results taken in the order Document, GitHub, Text, in whatever
\* order the adapters completed.
MergedInSourceOrder ==
  SmartMergeDone =>
    mergedSkills = (IF autoMerge THEN mergeSkills(ResultsInSourceOrder)
                    ELSE Flat(ResultsInSourceOrder))

\* Text completed before Document, both with a candidate of one key, and the
\* merge in completion order would have given another list.
MergedOutOfOrderWitness ==
  /\ SmartMergeDone /\ autoMerge
  /\ SettledBefore("Text", "Document")
  /\ outcome["Document"] = "ok" /\ outcome["Text"] = "ok"
  /\ mergeSkills(<<results["Text"], results["Document"]>>) # mergedSkills

\* Three adapters completed in the reverse of the source order.
ReverseCompletionOrderWitness ==
  SmartMergeDone /\ settleOrder = <<"Text", "GitHub", "Document">>

\* ---- C25: the merge and the candidates it was given
InputsAfterMerge == SubSeq(fnHeap.heap, 1, Len(fnInput))

\* C25: after the merge every candidate given, the first-seen candidate of a
\* key that absorbed duplicates included, is as it was given, and merging the
\* same candidates again returns the same list.
MergeLeavesCandidatesAlone ==
  fnDone =>
    /\ InputsAfterMerge = fnInput
    /\ Deref(fnHeap) = fnOutput
    /\ Deref(MergeByReference(InputsAfterMerge)) = fnOutput

\* A first-seen candidate absorbed a duplicate that changed its entry.
AbsorbedDuplicateWitness ==
  /\ fnDone /\ Len(fnInput) >= 2
  /\ KeyOf(fnInput[1]) = KeyOf(fnInput[2])
  /\ fnOutput[1] # fnInput[1]
  /\ fnHeap.out[1] > Len(fnInput)

\* A lone candidate is returned as the object it was given.
LoneCandidateIsReturnedItself ==
  (fnDone /\ Len(fnInput) = 1) => fnHeap.out = <<1>>
====
